---------------------------- MODULE Spec2Model ----------------------------
(***************************************************************************)
(* A model of the EON-SPOOKER engine: the cumulative reconstruction walk   *)
(* (eon_spooker/data_processor.py), the format classifier                  *)
(* (eon_spooker/format_detector.py), the format parsers and the unified    *)
(* orchestrator (eon_spooker/unified_parser.py), and the folder watcher of *)
(* the addon (addon/file_watcher.py).                                      *)
(*                                                                         *)
(* Energy values are integers counting units of 1/120000 kWh, so that     *)
(* round(x, 3) is a real operation (to the nearest multiple of 120 units)  *)
(* and a 24th of a rounded value is again an integer.  The values read     *)
(* from files are multiples of 24 units (0.0002 kWh), whose sums never lie *)
(* halfway between two multiples of 0.001 kWh.  A timestamp is the number  *)
(* of minutes since midnight of day 0.                                     *)
(***************************************************************************)
EXTENDS Integers, Sequences, FiniteSets

VARIABLES
    parsed_data,      \* process_data: the four buckets handed to it
    processed_data,   \* process_data: what it returned
    pd_pc,            \* "ready" before process_data ran, "done" after it,
                      \* "validated" after validate_processed_data
    validation,       \* validate_processed_data: how the call ended
    df_sample,        \* detect_format: what pd.read_csv(nrows=10) makes of the file
    det_result,       \* detect_format: how the call ended
    det_pc,           \* "ready" before detect_format ran, "done" after
    up_request,       \* UnifiedParser: the call and its arguments
    pf_outcome,       \* parse_file: how the call ended
    pmf_outcome,      \* parse_multiple_files: how the call ended
    up_pc,            \* "ready" before the UnifiedParser call ran, "done" after
    pr_parser,        \* a parser on its own: the class of the parser
    pr_file,          \* a parser on its own: the file it is given
    csv_outcome,      \* CSVParser(...).parse(): how the call ended
    new_outcome,      \* APAMParser / CumulativeParser .parse(): how the call ended
    pr_pc,            \* "ready" before the parser ran, "done" after
    cc_calls,         \* concurrent parse_file calls: each call's arguments,
                      \* position and local variables
    cc_heap,          \* concurrent parse_file calls: the parser instances
    fw_auto,          \* file watcher: AUTO_PROCESS, as the environment sets it
    fw_processing,    \* file watcher: EONFileHandler.processing
    fw_handlers,      \* file watcher: each handler thread's position and file_path
    fw_log,           \* file watcher: what process_file gave the logger
    fw_handled        \* file watcher: the number of events delivered

recon_vars == <<parsed_data, processed_data, pd_pc, validation>>
det_vars == <<df_sample, det_result, det_pc>>
up_vars == <<up_request, pf_outcome, pmf_outcome, up_pc>>
pr_vars == <<pr_parser, pr_file, csv_outcome, new_outcome, pr_pc>>
cc_vars == <<cc_calls, cc_heap>>
fw_vars == <<fw_auto, fw_processing, fw_handlers, fw_log, fw_handled>>
vars == <<recon_vars, det_vars, up_vars, pr_vars, cc_vars, fw_vars>>

---------------------------------------------------------------------------
(* Bounds and input domains                                                *)

MaxHourly == 3        \* longest interval-delta bucket
MaxDaily == 2         \* longest daily-baseline bucket
MaxSampleRows == 2    \* most data rows in a classifier sample

Days == {1, 2}
TimesOfDay == {0, 15, 60}          \* 00:00, 00:15, 01:00
DeltaValues == {-72, 96}               \* -0.0006 kWh, 0.0008 kWh
BaselineValues == {120000, 120048}     \* 1.0000 kWh, 1.0004 kWh

Directions == {"import", "export"}

---------------------------------------------------------------------------
(* datetime helpers                                                        *)

MinutesPerDay == 24 * 60

\* datetime.date()
DateOf(ts) == ts \div MinutesPerDay

\* datetime.minute
MinuteOf(ts) == ts % 60

\* the time of day, in minutes
TimeOf(ts) == ts % MinutesPerDay

---------------------------------------------------------------------------
(* Values and floats                                                       *)
(*                                                                         *)
(* A value is a whole number of units of 1/120000 kWh, which is what exact *)
(* arithmetic on the decimal texts of the files gives.  The code holds a   *)
(* binary64 float in its place.  The two part company only where           *)
(* round(value, 3) meets a value halfway between two thousandths: there    *)
(* the float the code holds decides, so the model computes that float,     *)
(* operation by operation, next to the value.                              *)

\* 0.001 kWh
Milli == 24 * 5

\* A float is held exactly: a sign and a magnitude that is a whole number of
\* 2^-FracBits kWh, written in limbs of LimbBits bits, lowest limb first,
\* without leading zero limbs.  Every float the code computes from values of
\* at least one unit fits.
FracBits == 80
LimbBits == 15
Base == 2^LimbBits

\* the bits of a binary64 significand
Precision == 53

Abs(x) == IF x < 0 THEN -x ELSE x

RECURSIVE LimbsOf(_)
LimbsOf(n) == IF n = 0 THEN <<>> ELSE <<n % Base>> \o LimbsOf(n \div Base)

Limb(b, i) == IF i \in DOMAIN b THEN b[i] ELSE 0

RECURSIVE Trim(_)
Trim(b) ==
    IF b = <<>> \/ b[Len(b)] # 0 THEN b ELSE Trim(SubSeq(b, 1, Len(b) - 1))

RECURSIVE AddFrom(_, _, _, _)
AddFrom(a, b, i, carry) ==
    IF i > Len(a) /\ i > Len(b) THEN (IF carry = 0 THEN <<>> ELSE <<carry>>)
    ELSE LET t == Limb(a, i) + Limb(b, i) + carry
         IN  <<t % Base>> \o AddFrom(a, b, i + 1, t \div Base)

AddLimbs(a, b) == AddFrom(a, b, 1, 0)

\* a - b for a >= b
RECURSIVE SubFrom(_, _, _, _)
SubFrom(a, b, i, borrow) ==
    IF i > Len(a) THEN <<>>
    ELSE LET t == Limb(a, i) - Limb(b, i) - borrow
         IN  <<t % Base>> \o SubFrom(a, b, i + 1, IF t < 0 THEN 1 ELSE 0)

SubLimbs(a, b) == Trim(SubFrom(a, b, 1, 0))

LessLimbs(a, b) ==
    \/ Len(a) < Len(b)
    \/ /\ Len(a) = Len(b)
       /\ \E i \in 1..Len(a) :
              a[i] < b[i] /\ \A j \in (i + 1)..Len(a) : a[j] = b[j]

\* b * m for a factor below Base
RECURSIVE MulFrom(_, _, _, _)
MulFrom(b, m, i, carry) ==
    IF i > Len(b) THEN (IF carry = 0 THEN <<>> ELSE <<carry>>)
    ELSE LET t == b[i] * m + carry
         IN  <<t % Base>> \o MulFrom(b, m, i + 1, t \div Base)

\* b * 2^k
ShiftLeft(b, k) ==
    IF b = <<>> THEN <<>>
    ELSE [i \in 1..(k \div LimbBits) |-> 0] \o MulFrom(b, 2^(k % LimbBits), 1, 0)

\* long division by a divisor below Base, highest limb first: quotient and
\* remainder
RECURSIVE DivFrom(_, _, _, _)
DivFrom(b, d, i, r) ==
    IF i = 0 THEN [q |-> <<>>, r |-> r]
    ELSE LET cur == r * Base + b[i]
             rest == DivFrom(b, d, i - 1, cur % d)
         IN  [q |-> Append(rest.q, cur \div d), r |-> rest.r]

DivLimbs(b, d) ==
    LET res == DivFrom(b, d, Len(b), 0)
    IN  [q |-> Trim(res.q), r |-> res.r]

\* the number of bits of b
BitLength(b) ==
    IF b = <<>> THEN 0
    ELSE LimbBits * (Len(b) - 1)
         + (CHOOSE k \in 1..LimbBits : 2^(k - 1) <= b[Len(b)] /\ b[Len(b)] < 2^k)

\* bit p of b, the lowest bit being bit 1
BitAt(b, p) == (Limb(b, ((p - 1) \div LimbBits) + 1) \div 2^((p - 1) % LimbBits)) % 2

\* b without its lowest q bits, in place
ClearBelow(b, q) ==
    [i \in 1..Len(b) |->
        IF i <= q \div LimbBits THEN 0
        ELSE IF i = (q \div LimbBits) + 1 THEN b[i] - (b[i] % 2^(q % LimbBits))
        ELSE b[i]]

\* round to nearest, ties to even, to Precision significant bits; inexact
\* tells that the number has a fraction below its lowest bit
RoundLimbs(b, inexact) ==
    IF BitLength(b) <= Precision THEN b
    ELSE LET q == BitLength(b) - Precision
             below == inexact \/ ClearBelow(b, q - 1) # b
             up == BitAt(b, q) = 1 /\ (below \/ BitAt(b, q + 1) = 1)
             kept == ClearBelow(b, q)
         IN  IF up THEN AddLimbs(kept, ShiftLeft(<<1>>, q)) ELSE kept

\* x / 120000 kWh in units of 2^-FracBits: the whole part and the remainder
\* of the division by 1875 = 120000 / 2^6
ExactLimbs(x) == DivLimbs(ShiftLeft(LimbsOf(Abs(x)), FracBits - 6), 1875)

\* float(text) of the decimal text of x units: the nearest binary64
FloatOf(x) ==
    LET exact == ExactLimbs(x)
    IN  [neg |-> x < 0, mag |-> RoundLimbs(exact.q, exact.r # 0)]

\* a + b of two floats
FAdd(a, b) ==
    IF a.neg = b.neg
    THEN [neg |-> a.neg, mag |-> RoundLimbs(AddLimbs(a.mag, b.mag), FALSE)]
    ELSE IF LessLimbs(a.mag, b.mag)
    THEN [neg |-> b.neg, mag |-> RoundLimbs(SubLimbs(b.mag, a.mag), FALSE)]
    ELSE [neg |-> a.neg, mag |-> RoundLimbs(SubLimbs(a.mag, b.mag), FALSE)]

\* a - b of two floats
FSub(a, b) == FAdd(a, [b EXCEPT !.neg = ~@])

\* a / 24 of a float
FDiv24(a) ==
    LET res == DivLimbs(ShiftLeft(a.mag, 8), 24)
    IN  [neg |-> a.neg, mag |-> DivLimbs(RoundLimbs(res.q, res.r # 0), 2^8).q]

\* max(0, a)
FMax0(a) == IF a.neg THEN [neg |-> FALSE, mag |-> <<>>] ELSE a

\* round(f, 3) of the float f that the code holds where exact arithmetic
\* gives x units: the nearest multiple of 0.001 kWh.  Where x lies halfway
\* between two thousandths the float decides: the thousandth on its side of
\* the halfway point, and the even thousandth when it is the halfway point
RoundFloat3(x, f) ==
    IF x % Milli # Milli \div 2 THEN Milli * ((x + (Milli \div 2)) \div Milli)
    ELSE LET halfway == ExactLimbs(x)
             inner == Abs(x) - (Milli \div 2)
             outer == Abs(x) + (Milli \div 2)
             nearest == IF LessLimbs(halfway.q, f.mag) THEN outer
                        ELSE IF f.mag = halfway.q /\ halfway.r = 0
                        THEN (IF (inner \div Milli) % 2 = 0 THEN inner ELSE outer)
                        ELSE inner
         IN  IF x < 0 THEN -nearest ELSE nearest

\* round(x, 3) of the float read from the decimal text of x units
Round3(x) == RoundFloat3(x, FloatOf(x))

\* the float that "cumulative_value += hourly_entry['value']" leaves after
\* the values of the entries were added to total one by one; 0.0 + value is
\* the value
RECURSIVE FloatSum(_, _)
FloatSum(total, entries) ==
    IF entries = <<>> THEN total
    ELSE IF total.mag = <<>>
    THEN FloatSum(FloatOf(Head(entries).value), Tail(entries))
    ELSE FloatSum(FAdd(total, FloatOf(Head(entries).value)), Tail(entries))

\* the float that "total += share" leaves after n additions of the same share
RECURSIVE FloatAfter(_, _, _)
FloatAfter(n, total, share) ==
    IF n = 0 THEN total
    ELSE IF total.mag = <<>> THEN FloatAfter(n - 1, share, share)
    ELSE FloatAfter(n - 1, FAdd(total, share), share)

\* the sum of a column of a group as DataFrameGroupBy.sum adds it up: one
\* value after the other, with Kahan's compensation; the first value leaves
\* itself as the sum and no compensation
RECURSIVE KahanSum(_, _, _)
KahanSum(values, sumx, compensation) ==
    IF values = <<>> THEN sumx
    ELSE IF sumx.mag = <<>> /\ compensation.mag = <<>>
    THEN KahanSum(Tail(values), Head(values), FloatOf(0))
    ELSE LET y == FSub(Head(values), compensation)
             t == FAdd(sumx, y)
         IN  KahanSum(Tail(values), t, FSub(FSub(t, sumx), y))

---------------------------------------------------------------------------

\* list.sort(key=lambda x: x['timestamp']): a stable sort
RECURSIVE InsertByTimestamp(_, _)
InsertByTimestamp(sorted, e) ==
    IF sorted = <<>> THEN <<e>>
    ELSE IF sorted[Len(sorted)].timestamp <= e.timestamp
         THEN Append(sorted, e)
         ELSE Append(InsertByTimestamp(SubSeq(sorted, 1, Len(sorted) - 1), e),
                     sorted[Len(sorted)])

RECURSIVE SortByTimestamp(_)
SortByTimestamp(s) ==
    IF s = <<>> THEN <<>>
    ELSE InsertByTimestamp(SortByTimestamp(SubSeq(s, 1, Len(s) - 1)), s[Len(s)])

---------------------------------------------------------------------------
(* DataProcessor                                                           *)

\* self.timezone_offset, as the tests construct the processor
timezone_offset == "+02:00"

\* f"{timestamp.strftime('%Y-%m-%d %H:%M:%S')}{self.timezone_offset}"
FormatStart(ts) == <<DateOf(ts), TimeOf(ts), timezone_offset>>

\* the yaml_entry of a point; cumulative_float is the float in
\* cumulative_value
YamlEntry(ts, cumulative_value, cumulative_float) ==
    [start |-> FormatStart(ts),
     state |-> RoundFloat3(cumulative_value, cumulative_float),
     sum   |-> RoundFloat3(cumulative_value, cumulative_float)]

\* HourLoop with the delta added before the point is emitted
RECURSIVE HourLoop_AddFirst(_, _, _, _)
HourLoop_AddFirst(day_hourly_values, i, cumulative_value, baseline_float) ==
    IF i > Len(day_hourly_values) THEN <<>>
    ELSE LET hourly_entry == day_hourly_values[i]
             added == cumulative_value + hourly_entry.value
             emitted == IF MinuteOf(hourly_entry.timestamp) = 0
                        THEN <<YamlEntry(hourly_entry.timestamp, added,
                                         FloatSum(baseline_float,
                                                  SubSeq(day_hourly_values, 1, i)))>>
                        ELSE <<>>
         IN  emitted \o HourLoop_AddFirst(day_hourly_values, i + 1, added,
                                          baseline_float)

\* the inner loop of _process_energy_data: emit at the top of the hour,
\* then add the delta.  cumulative_value is the running total in exact
\* arithmetic; the float the code holds in its place is the float of the
\* day's baseline with the floats of the deltas so far added one by one
RECURSIVE HourLoop(_, _, _, _)
HourLoop(day_hourly_values, i, cumulative_value, baseline_float) ==
    IF i > Len(day_hourly_values) THEN <<>>
    ELSE LET hourly_entry == day_hourly_values[i]
             emitted == IF MinuteOf(hourly_entry.timestamp) = 0
                        THEN <<YamlEntry(hourly_entry.timestamp, cumulative_value,
                                         FloatSum(baseline_float,
                                                  SubSeq(day_hourly_values, 1, i - 1)))>>
                        ELSE <<>>
         IN  emitted \o HourLoop(day_hourly_values, i + 1,
                                 cumulative_value + hourly_entry.value,
                                 baseline_float)

\* DayHourlyValues without the date filter
DayHourlyValues_AllDays(hourly_data, day_start) == hourly_data

DayHourlyValues(hourly_data, day_start) ==
    SelectSeq(hourly_data, LAMBDA entry : DateOf(entry.timestamp) = DateOf(day_start))

\* the deltas of a walk, added up
RECURSIVE ValuesSum(_)
ValuesSum(entries) ==
    IF entries = <<>> THEN 0 ELSE Head(entries).value + ValuesSum(Tail(entries))

\* a day loop that sets the running total once, before the first day, and
\* carries it from day to day
RECURSIVE DayLoop_Carry(_, _, _, _)
DayLoop_Carry(daily_data, hourly_data, d, cumulative_value) ==
    IF d > Len(daily_data) THEN <<>>
    ELSE HourLoop(DayHourlyValues(hourly_data, daily_data[d].timestamp), 1,
                  cumulative_value, FloatOf(cumulative_value))
         \o DayLoop_Carry(daily_data, hourly_data, d + 1,
                          cumulative_value
                              + ValuesSum(DayHourlyValues(hourly_data,
                                                          daily_data[d].timestamp)))

DayLoop_CarryOver(daily_data, hourly_data, d) ==
    IF d > Len(daily_data) THEN <<>>
    ELSE DayLoop_Carry(daily_data, hourly_data, d, daily_data[d].value)

\* the outer loop of _process_energy_data: one pass per baseline entry
RECURSIVE DayLoop(_, _, _)
DayLoop(daily_data, hourly_data, d) ==
    IF d > Len(daily_data) THEN <<>>
    ELSE LET day_entry == daily_data[d]
             day_hourly_values == DayHourlyValues(hourly_data, day_entry.timestamp)
         IN  HourLoop(day_hourly_values, 1, day_entry.value, FloatOf(day_entry.value))
             \o DayLoop(daily_data, hourly_data, d + 1)

process_energy_data(daily_data, hourly_data) ==
    IF daily_data = <<>> THEN <<>>
    ELSE DayLoop(SortByTimestamp(daily_data), SortByTimestamp(hourly_data), 1)

\* HourlyOnlyLoop with the point emitted before the delta is added
RECURSIVE HourlyOnlyLoop_EmitFirst(_, _, _, _)
HourlyOnlyLoop_EmitFirst(hourly_data, i, cumulative_value, start_float) ==
    IF i > Len(hourly_data) THEN <<>>
    ELSE LET hourly_entry == hourly_data[i]
             emitted == IF MinuteOf(hourly_entry.timestamp) = 0
                        THEN <<YamlEntry(hourly_entry.timestamp, cumulative_value,
                                         FloatSum(start_float,
                                                  SubSeq(hourly_data, 1, i - 1)))>>
                        ELSE <<>>
         IN  emitted \o HourlyOnlyLoop_EmitFirst(
                            hourly_data, i + 1,
                            cumulative_value + hourly_entry.value, start_float)

\* the loop of _process_hourly_only_data: add the delta, then emit at the
\* top of the hour.  The float the code holds in place of the running total
\* is start_float, its 0.0, with the floats of the deltas so far added one by
\* one
RECURSIVE HourlyOnlyLoop(_, _, _, _)
HourlyOnlyLoop(hourly_data, i, cumulative_value, start_float) ==
    IF i > Len(hourly_data) THEN <<>>
    ELSE LET hourly_entry == hourly_data[i]
             added == cumulative_value + hourly_entry.value
             emitted == IF MinuteOf(hourly_entry.timestamp) = 0
                        THEN <<YamlEntry(hourly_entry.timestamp, added,
                                         FloatSum(start_float,
                                                  SubSeq(hourly_data, 1, i)))>>
                        ELSE <<>>
         IN  emitted \o HourlyOnlyLoop(hourly_data, i + 1, added, start_float)

process_hourly_only_data(hourly_data) ==
    IF hourly_data = <<>> THEN <<>>
    ELSE HourlyOnlyLoop(SortByTimestamp(hourly_data), 1, 0, FloatOf(0))

\* one direction of process_data
ProcessDirection(daily_data, hourly_data) ==
    IF hourly_data # <<>>
    THEN IF daily_data # <<>>
         THEN process_energy_data(daily_data, hourly_data)
         ELSE process_hourly_only_data(hourly_data)
    ELSE <<>>

process_data(parsed) ==
    [import |-> ProcessDirection(parsed.import_daily, parsed.import_hourly),
     export |-> ProcessDirection(parsed.export_daily, parsed.export_hourly)]

---------------------------------------------------------------------------
(* Files                                                                   *)
(*                                                                         *)
(* A file is a delimited table: a header and rows of cells.  A cell is a   *)
(* piece of text of one of a few kinds: a timestamp written in some        *)
(* format, a decimal number, words, or the empty string.  A row shorter    *)
(* than the header has no cell in its last columns.                        *)

TimeCell(fmt, ts) == [k |-> "time", fmt |-> fmt, n |-> ts, words |-> <<>>]
NumCell(v) == [k |-> "num", fmt |-> "", n |-> v, words |-> <<>>]
TextCell(words) == [k |-> "text", fmt |-> "", n |-> 0, words |-> words]
EmptyCell == [k |-> "empty", fmt |-> "", n |-> 0, words |-> <<>>]
\* what csv.DictReader gives for a column the row does not reach (None)
NoCell == [k |-> "none", fmt |-> "", n |-> 0, words |-> <<>>]

\* the column that dict(zip(fieldnames, row)) of csv.DictReader keeps under a
\* name: the last one that carries it, 0 when absent
ColumnIndex(header, name) ==
    IF \E i \in 1..Len(header) : header[i] = name
    THEN CHOOSE i \in 1..Len(header) :
            header[i] = name /\ \A j \in (i + 1)..Len(header) : header[j] # name
    ELSE 0

\* row[name] of a csv.DictReader row: a later column of the same name replaces
\* an earlier one, and a column the row does not reach is None
CellAt(header, row, name) ==
    LET i == ColumnIndex(header, name)
    IN  IF i = 0 \/ i > Len(row) THEN NoCell ELSE row[i]

\* the column of a pandas frame under a name: read_csv renames the later
\* columns of a repeated name ("+A", "+A.1"), so the name stays with the first
\* column that carries it; 0 when absent
FrameColumnIndex(header, name) ==
    IF \E i \in 1..Len(header) : header[i] = name
    THEN CHOOSE i \in 1..Len(header) :
            header[i] = name /\ \A j \in 1..(i - 1) : header[j] # name
    ELSE 0

\* row.iloc[i - 1] of a frame row
FrameCellAtPosition(row, i) ==
    IF i = 0 \/ i > Len(row) THEN NoCell ELSE row[i]

\* row[name] of a frame row
FrameCellAt(header, row, name) ==
    FrameCellAtPosition(row, FrameColumnIndex(header, name))

\* row.iloc[0]
FirstCell(row) == IF Len(row) = 0 THEN NoCell ELSE row[1]

Range(f) == {f[i] : i \in DOMAIN f}

\* 'DP_' in col and ':' in col
IsDPColumn(col) == col \in {"DP_1-1:1.8.0*0", "DP_1-1:2.8.0*0"}

---------------------------------------------------------------------------
(* CSVParser (the legacy parser)                                           *)

\* config.CSV_COLUMNS
CSV_COLUMNS ==
    [POD_NAME |-> "POD Name", VARIABLE_NAME |-> "Variable name",
     TIME |-> "Time", VALUE |-> "Value [kWh]"]

\* config.VARIABLE_FILTERS
VARIABLE_FILTERS ==
    [IMPORT_HOURLY |-> TextCell(<<"'+A'">>),
     EXPORT_HOURLY |-> TextCell(<<"'-A'">>),
     IMPORT_DAILY  |-> TextCell(<<"'DP_1-1:1.8.0*0'">>),
     EXPORT_DAILY  |-> TextCell(<<"'DP_1-1:2.8.0*0'">>)]

\* config.DATETIME_FORMAT
DATETIME_FORMAT == "%Y.%m.%d %H:%M:%S"

\* how a step that may raise ended
Ok(value) == [raised |-> FALSE, error |-> "", value |-> value]
Raise(error) == [raised |-> TRUE, error |-> error, value |-> <<>>]

\* CSVParser._parse_datetime: strptime(None) is a TypeError, any other text
\* that is not in DATETIME_FORMAT a DataValidationError
parse_datetime(cell) ==
    IF cell.k = "none" THEN Raise("TypeError")
    ELSE IF cell.k = "time" /\ cell.fmt = DATETIME_FORMAT THEN Ok(cell.n)
    ELSE Raise("DataValidationError")

\* CSVParser._parse_value
parse_value(cell) ==
    IF cell.k = "none" THEN Raise("TypeError")
    ELSE IF cell.k = "num" THEN Ok(cell.n)
    ELSE Raise("DataValidationError")

\* CSVParser._validate_headers; fieldnames is None for a file without header
validate_headers(header) ==
    IF header = <<>> THEN Raise("TypeError")
    ELSE IF Range(CSV_COLUMNS) \subseteq Range(header) THEN Ok(<<>>)
    ELSE Raise("CSVFormatError")

\* the buckets (data) of CSVParser.parse
EmptyData ==
    [import_hourly |-> <<>>, export_hourly |-> <<>>,
     import_daily |-> <<>>, export_daily |-> <<>>]

\* a row categorised by its token without the quotes around it
process_row_Unquoted(header, row, data) ==
    LET variable_name == CellAt(header, row, CSV_COLUMNS.VARIABLE_NAME)
        timestamp == parse_datetime(CellAt(header, row, CSV_COLUMNS.TIME))
        value == parse_value(CellAt(header, row, CSV_COLUMNS.VALUE))
        data_point == [timestamp |-> timestamp.value, value |-> value.value]
    IN  IF timestamp.raised THEN Raise(timestamp.error)
        ELSE IF value.raised THEN Raise(value.error)
        ELSE IF variable_name \in {VARIABLE_FILTERS.IMPORT_HOURLY, TextCell(<<"+A">>)}
        THEN Ok([data EXCEPT !.import_hourly = Append(@, data_point)])
        ELSE IF variable_name \in {VARIABLE_FILTERS.EXPORT_HOURLY, TextCell(<<"-A">>)}
        THEN Ok([data EXCEPT !.export_hourly = Append(@, data_point)])
        ELSE IF variable_name = VARIABLE_FILTERS.IMPORT_DAILY
        THEN Ok([data EXCEPT !.import_daily = Append(@, data_point)])
        ELSE IF variable_name = VARIABLE_FILTERS.EXPORT_DAILY
        THEN Ok([data EXCEPT !.export_daily = Append(@, data_point)])
        ELSE Ok(data)

\* CSVParser._process_row: the data with the row's point appended to its
\* bucket, or the exception raised; the point's pod_name, which nothing reads
\* afterwards, is left out
process_row(header, row, data) ==
    LET variable_name == CellAt(header, row, CSV_COLUMNS.VARIABLE_NAME)
        timestamp == parse_datetime(CellAt(header, row, CSV_COLUMNS.TIME))
        value == parse_value(CellAt(header, row, CSV_COLUMNS.VALUE))
        data_point == [timestamp |-> timestamp.value, value |-> value.value]
    IN  IF timestamp.raised THEN Raise(timestamp.error)
        ELSE IF value.raised THEN Raise(value.error)
        ELSE IF variable_name = VARIABLE_FILTERS.IMPORT_HOURLY
        THEN Ok([data EXCEPT !.import_hourly = Append(@, data_point)])
        ELSE IF variable_name = VARIABLE_FILTERS.EXPORT_HOURLY
        THEN Ok([data EXCEPT !.export_hourly = Append(@, data_point)])
        ELSE IF variable_name = VARIABLE_FILTERS.IMPORT_DAILY
        THEN Ok([data EXCEPT !.import_daily = Append(@, data_point)])
        ELSE IF variable_name = VARIABLE_FILTERS.EXPORT_DAILY
        THEN Ok([data EXCEPT !.export_daily = Append(@, data_point)])
        ELSE Ok(data)

\* the row loop of CSVParser.parse: csv.DictReader passes over a blank line
\* (a row of no cells); a DataValidationError or ValueError skips the row,
\* any other exception ends the loop
RECURSIVE RowLoop(_, _, _, _)
RowLoop(header, rows, i, data) ==
    IF i > Len(rows) THEN Ok(data)
    ELSE IF rows[i] = <<>> THEN RowLoop(header, rows, i + 1, data)
    ELSE LET r == process_row(header, rows[i], data)
         IN  IF ~r.raised THEN RowLoop(header, rows, i + 1, r.value)
             ELSE IF r.error \in {"DataValidationError", "ValueError"}
             THEN RowLoop(header, rows, i + 1, data)
             ELSE Raise(r.error)

\* CSVParser._validate_parsed_data
validate_parsed_data(data) ==
    [import_hourly |-> SortByTimestamp(data.import_hourly),
     export_hourly |-> SortByTimestamp(data.export_hourly),
     import_daily |-> SortByTimestamp(data.import_daily),
     export_daily |-> SortByTimestamp(data.export_daily)]

\* CSVParser(file_path, delimiter).parse(): the constructor's _validate_file,
\* then parse, whose try block turns every exception into FileProcessingError
CSVParser_parse(file) ==
    IF ~file.exists THEN Raise("FileProcessingError")
    ELSE LET headers == validate_headers(file.header)
             rows == RowLoop(file.header, file.rows, 1, EmptyData)
         IN  IF headers.raised \/ rows.raised THEN Raise("FileProcessingError")
             ELSE Ok(validate_parsed_data(rows.value))

---------------------------------------------------------------------------
(* The pandas-based parsers.  Their files are read by pd.read_csv, which   *)
(* raises for a missing file and for a file without header and skips the   *)
(* blank lines (rows of no cells).  The other rows of the modelled files   *)
(* have a non-empty first cell (pandas reads an empty one as NaT, which is *)
(* outside this model).                                                    *)

\* the format strings handed to pd.to_datetime
AP_AM_FORMAT == "%Y.%m.%d. %H:%M"
CUMULATIVE_FORMAT == "%Y.%m.%d."

\* pd.to_datetime(text, format=fmt) succeeds
ParsesAs(cell, fmt) == cell.k = "time" /\ cell.fmt = fmt

\* _safe_float: None for what is no number
IsFloat(cell) == cell.k = "num"

\* the sorted sequence of a finite set of integers
RECURSIVE SortedSeqOf(_)
SortedSeqOf(S) ==
    IF S = {} THEN <<>>
    ELSE LET m == CHOOSE x \in S : \A y \in S : x <= y
         IN  <<m>> \o SortedSeqOf(S \ {m})

\* list.sort(key=...), a stable sort, with keys[i] the key of s[i]: an element
\* comes after every element with a smaller key and after the earlier elements
\* with its own key
SortPlace(keys, i) ==
    1 + Cardinality({j \in DOMAIN keys :
                        \/ keys[j] < keys[i]
                        \/ keys[j] = keys[i] /\ j < i})

StableSort(s, keys) ==
    IF s = <<>> THEN <<>>
    ELSE LET place == [i \in DOMAIN s |-> SortPlace(keys, i)]
         IN  [p \in DOMAIN s |-> s[CHOOSE i \in DOMAIN s : place[i] = p]]

\* list.sort(key=lambda x: x['datetime']) and .sort(key=lambda x: x['date'])
SortByKey(s, key) == StableSort(s, [i \in DOMAIN s |-> s[i][key]])

\* sum(r[key] for r in s)
RECURSIVE SumOf(_, _)
SumOf(s, key) ==
    IF s = <<>> THEN 0 ELSE Head(s)[key] + SumOf(Tail(s), key)

\* dt.floor('H')
HourFloor(ts) == ts - (ts % 60)

NoDateRange == [keys |-> {}, start |-> 0, end |-> 0, days |-> 0]

Min(S) == CHOOSE x \in S : \A y \in S : x <= y
Max(S) == CHOOSE x \in S : \A y \in S : x >= y

\* the rows _clean_data keeps: those whose first cell parses as a timestamp
\* (a summary row never does)
CleanRows(rows, fmt) == SelectSeq(rows, LAMBDA row : ParsesAs(FirstCell(row), fmt))

---------------------------------------------------------------------------
(* APAMParser                                                              *)

AP_AM_COLUMNS == <<"Datum/Ido", "+A", "-A">>

\* APAMParser._convert_to_time_series
RECURSIVE APAM_RowLoop(_, _, _)
APAM_RowLoop(header, rows, i) ==
    IF i > Len(rows) THEN <<>>
    ELSE LET dt == FrameCellAt(header, rows[i], AP_AM_COLUMNS[1])
             import_val == FrameCellAt(header, rows[i], AP_AM_COLUMNS[2])
             export_val == FrameCellAt(header, rows[i], AP_AM_COLUMNS[3])
             record == [datetime |-> dt.n,
                        import_kwh |-> import_val.n,
                        export_kwh |-> export_val.n,
                        net_kwh |-> import_val.n - export_val.n]
         IN  (IF ParsesAs(dt, AP_AM_FORMAT) /\ IsFloat(import_val) /\ IsFloat(export_val)
              THEN <<record>> ELSE <<>>)
             \o APAM_RowLoop(header, rows, i + 1)

convert_to_time_series(header, rows) ==
    SortByKey(APAM_RowLoop(header, rows, 1), "datetime")

\* round(row[key], 3) of the row that groupby(...).agg({key: 'sum'}) makes of
\* a group of records.  The float under a key is the number read from the
\* file, or the difference "import_val - export_val" of two
RoundedSum(group, key) ==
    RoundFloat3(SumOf(group, key),
                KahanSum([i \in 1..Len(group) |->
                            IF key = "net_kwh"
                            THEN FSub(FloatOf(group[i].import_kwh),
                                      FloatOf(group[i].export_kwh))
                            ELSE FloatOf(group[i][key])],
                         FloatOf(0), FloatOf(0)))

\* _aggregate_to_hourly with the hour of a record taken as the midnight of
\* its day
aggregate_to_hourly_ByDate(time_series_data) ==
    LET hours == SortedSeqOf({DateOf(r.datetime) * MinutesPerDay :
                                  r \in Range(time_series_data)})
        InHour(h) == SelectSeq(time_series_data,
                               LAMBDA r : DateOf(r.datetime) * MinutesPerDay = h)
    IN  [i \in 1..Len(hours) |->
            [datetime |-> hours[i],
             import_kwh |-> RoundedSum(InHour(hours[i]), "import_kwh"),
             export_kwh |-> RoundedSum(InHour(hours[i]), "export_kwh"),
             net_kwh |-> RoundedSum(InHour(hours[i]), "net_kwh")]]

\* APAMParser._aggregate_to_hourly
aggregate_to_hourly(time_series_data) ==
    LET hours == SortedSeqOf({HourFloor(r.datetime) : r \in Range(time_series_data)})
        InHour(h) == SelectSeq(time_series_data, LAMBDA r : HourFloor(r.datetime) = h)
    IN  [i \in 1..Len(hours) |->
            [datetime |-> hours[i],
             import_kwh |-> RoundedSum(InHour(hours[i]), "import_kwh"),
             export_kwh |-> RoundedSum(InHour(hours[i]), "export_kwh"),
             net_kwh |-> RoundedSum(InHour(hours[i]), "net_kwh")]]

\* APAMParser._calculate_daily_totals
calculate_daily_totals(time_series_data) ==
    LET dates == SortedSeqOf({DateOf(r.datetime) : r \in Range(time_series_data)})
        OnDate(d) == SelectSeq(time_series_data, LAMBDA r : DateOf(r.datetime) = d)
    IN  [i \in 1..Len(dates) |->
            [date |-> dates[i],
             import_kwh |-> RoundedSum(OnDate(dates[i]), "import_kwh"),
             export_kwh |-> RoundedSum(OnDate(dates[i]), "export_kwh"),
             net_kwh |-> RoundedSum(OnDate(dates[i]), "net_kwh")]]

\* APAMParser._get_date_range
APAM_get_date_range(time_series_data) ==
    IF time_series_data = <<>> THEN NoDateRange
    ELSE LET dates == {r.datetime : r \in Range(time_series_data)}
         IN  [keys |-> {"start", "end", "days"},
              start |-> Min(dates), end |-> Max(dates),
              days |-> ((Max(dates) - Min(dates)) \div MinutesPerDay) + 1]

\* APAMParser.parse: the result dict, then the whole; every exception of its try block becomes a
\* FileProcessingError.  A file without data rows leaves _clean_data with an
\* empty mask, which selects no column, so the column check fails.
APAM_Result(path, time_series_data) ==
    [format |-> "ap_am",
     keys |-> {"format", "summary", "raw_data", "hourly_data", "daily_data", "metadata"},
     raw_data |-> time_series_data,
     cumulative_data |-> <<>>,
     hourly_data |-> aggregate_to_hourly(time_series_data),
     daily_data |-> calculate_daily_totals(time_series_data),
     metadata |-> [keys |-> {"file_path", "total_records", "date_range",
                             "interval_minutes", "data_columns"},
                   file_path |-> path,
                   total_records |-> Len(time_series_data),
                   date_range |-> APAM_get_date_range(time_series_data)]]

APAMParser_parse(path, file) ==
    LET df == SelectSeq(file.rows, LAMBDA row : row # <<>>)
    IN  IF ~file.exists \/ file.header = <<>> THEN Raise("FileProcessingError")
        ELSE IF df = <<>> \/ ~(Range(AP_AM_COLUMNS) \subseteq Range(file.header))
        THEN Raise("FileProcessingError")
        ELSE Ok(APAM_Result(path,
                            convert_to_time_series(file.header,
                                                   CleanRows(df, AP_AM_FORMAT))))

---------------------------------------------------------------------------
(* CumulativeParser                                                        *)

\* range(24)
HoursPerDay == 24

\* CumulativeParser._get_data_columns: the DP columns of the frame, each by
\* its position; the renamed copy of a repeated DP column is a DP column too
get_data_columns(header) ==
    SelectSeq([i \in 1..Len(header) |-> i], LAMBDA i : IsDPColumn(header[i]))

\* CumulativeParser._convert_to_cumulative_series
RECURSIVE Cumulative_RowLoop(_, _, _)
Cumulative_RowLoop(header, rows, i) ==
    IF i > Len(rows) THEN <<>>
    ELSE LET data_columns == get_data_columns(header)
             date == FirstCell(rows[i])
             import_val == FrameCellAtPosition(rows[i], data_columns[1])
             export_val == FrameCellAtPosition(rows[i], data_columns[2])
             record == [date |-> DateOf(date.n),
                        datetime |-> date.n,
                        cumulative_import_kwh |-> import_val.n,
                        cumulative_export_kwh |-> export_val.n,
                        cumulative_net_kwh |-> import_val.n - export_val.n,
                        import_kwh |-> import_val.n,
                        export_kwh |-> export_val.n]
         IN  (IF /\ ParsesAs(date, CUMULATIVE_FORMAT)
                 /\ Len(data_columns) >= 2
                 /\ IsFloat(import_val) /\ IsFloat(export_val)
              THEN <<record>> ELSE <<>>)
             \o Cumulative_RowLoop(header, rows, i + 1)

convert_to_cumulative_series(header, rows) ==
    SortByKey(Cumulative_RowLoop(header, rows, 1), "date")

NonNegative(x) == IF x > 0 THEN x ELSE 0

\* a parser that leaves the consumption to others
calculate_daily_consumption_None(cumulative_data) == <<>>

\* a daily consumption that keeps a negative difference
calculate_daily_consumption_Unclamped(cumulative_data) ==
    IF Len(cumulative_data) < 2 THEN <<>>
    ELSE [j \in 1..(Len(cumulative_data) - 1) |->
            LET current == cumulative_data[j + 1]
                previous == cumulative_data[j]
                import_consumption ==
                    current.cumulative_import_kwh - previous.cumulative_import_kwh
                export_consumption ==
                    current.cumulative_export_kwh - previous.cumulative_export_kwh
                import_float ==
                    FSub(FloatOf(current.cumulative_import_kwh),
                         FloatOf(previous.cumulative_import_kwh))
                export_float ==
                    FSub(FloatOf(current.cumulative_export_kwh),
                         FloatOf(previous.cumulative_export_kwh))
            IN  [date |-> current.date,
                 datetime |-> current.datetime,
                 import_kwh |-> RoundFloat3(import_consumption, import_float),
                 export_kwh |-> RoundFloat3(export_consumption, export_float),
                 net_kwh |-> RoundFloat3(import_consumption - export_consumption,
                                         FSub(import_float, export_float))]]

\* CumulativeParser._calculate_daily_consumption
calculate_daily_consumption(cumulative_data) ==
    IF Len(cumulative_data) < 2 THEN <<>>
    ELSE [j \in 1..(Len(cumulative_data) - 1) |->
            LET current == cumulative_data[j + 1]
                previous == cumulative_data[j]
                import_consumption ==
                    current.cumulative_import_kwh - previous.cumulative_import_kwh
                export_consumption ==
                    current.cumulative_export_kwh - previous.cumulative_export_kwh
                import_float ==
                    FSub(FloatOf(current.cumulative_import_kwh),
                         FloatOf(previous.cumulative_import_kwh))
                export_float ==
                    FSub(FloatOf(current.cumulative_export_kwh),
                         FloatOf(previous.cumulative_export_kwh))
            IN  [date |-> current.date,
                 datetime |-> current.datetime,
                 import_kwh |-> RoundFloat3(NonNegative(import_consumption),
                                            FMax0(import_float)),
                 export_kwh |-> RoundFloat3(NonNegative(export_consumption),
                                            FMax0(export_float)),
                 net_kwh |-> RoundFloat3(import_consumption - export_consumption,
                                         FSub(import_float, export_float))]]

\* the loops of CumulativeParser._distribute_to_hourly: 24 records a day, each
\* after a 24th of the day's consumption was added to the running totals.  A
\* day's consumption is a multiple of Milli, so its 24th is a whole number of
\* units.  cumulative_import and cumulative_export are the running totals at
\* the start of the day in exact arithmetic, float_import and float_export
\* the floats the code holds in their place; the float of the share is added
\* to them once for every hour.
RECURSIVE DistributeLoop(_, _, _, _, _, _)
DistributeLoop(daily_data, d, cumulative_import, cumulative_export, float_import, float_export) ==
    IF d > Len(daily_data) THEN <<>>
    ELSE LET day_record == daily_data[d]
             hourly_import == day_record.import_kwh \div HoursPerDay
             hourly_export == day_record.export_kwh \div HoursPerDay
             hourly_net == day_record.net_kwh \div HoursPerDay
         IN  [n \in 1..HoursPerDay |->
                [datetime |-> DateOf(day_record.datetime) * MinutesPerDay
                              + (n - 1) * 60,
                 import_kwh |-> RoundFloat3(hourly_import,
                                            FDiv24(FloatOf(day_record.import_kwh))),
                 export_kwh |-> RoundFloat3(hourly_export,
                                            FDiv24(FloatOf(day_record.export_kwh))),
                 net_kwh |-> RoundFloat3(hourly_net,
                                         FDiv24(FloatOf(day_record.net_kwh))),
                 cumulative_import_kwh |->
                     RoundFloat3(cumulative_import + n * hourly_import,
                                 FloatAfter(n, float_import,
                                            FDiv24(FloatOf(day_record.import_kwh)))),
                 cumulative_export_kwh |->
                     RoundFloat3(cumulative_export + n * hourly_export,
                                 FloatAfter(n, float_export,
                                            FDiv24(FloatOf(day_record.export_kwh))))]]
             \o DistributeLoop(daily_data, d + 1,
                               cumulative_import + HoursPerDay * hourly_import,
                               cumulative_export + HoursPerDay * hourly_export,
                               FloatAfter(HoursPerDay, float_import,
                                          FDiv24(FloatOf(day_record.import_kwh))),
                               FloatAfter(HoursPerDay, float_export,
                                          FDiv24(FloatOf(day_record.export_kwh))))

\* a distribution whose running totals start at zero
distribute_to_hourly_FromZero(daily_data, cumulative_data) ==
    IF daily_data = <<>> THEN <<>>
    ELSE DistributeLoop(daily_data, 1, 0, 0, FloatOf(0), FloatOf(0))

\* CumulativeParser._distribute_to_hourly, with self.cumulative_data
distribute_to_hourly(daily_data, cumulative_data) ==
    IF daily_data = <<>> THEN <<>>
    ELSE IF cumulative_data # <<>>
    THEN DistributeLoop(daily_data, 1,
                        cumulative_data[1].cumulative_import_kwh,
                        cumulative_data[1].cumulative_export_kwh,
                        FloatOf(cumulative_data[1].cumulative_import_kwh),
                        FloatOf(cumulative_data[1].cumulative_export_kwh))
    ELSE DistributeLoop(daily_data, 1, 0, 0, FloatOf(0), FloatOf(0))

\* CumulativeParser._get_date_range
Cumulative_get_date_range(cumulative_data) ==
    IF cumulative_data = <<>> THEN NoDateRange
    ELSE LET dates == {r.datetime : r \in Range(cumulative_data)}
         IN  [keys |-> {"start", "end", "days"},
              start |-> Min(dates), end |-> Max(dates),
              days |-> Len(cumulative_data)]

\* CumulativeParser.parse: the result dict, the steps that fill it, then the
\* whole; every exception of its try block becomes a
\* FileProcessingError.  A file without data rows leaves _clean_data with an
\* empty mask, which selects no column, so the column count fails.
Cumulative_Result(path, cumulative_data, daily_consumption) ==
    [format |-> "cumulative_180_280",
     keys |-> {"format", "summary", "cumulative_data", "daily_data",
               "hourly_data", "metadata"},
     raw_data |-> <<>>,
     cumulative_data |-> cumulative_data,
     hourly_data |-> distribute_to_hourly(daily_consumption, cumulative_data),
     daily_data |-> daily_consumption,
     metadata |-> [keys |-> {"file_path", "total_records", "date_range",
                             "interval_type", "data_columns"},
                   file_path |-> path,
                   total_records |-> Len(cumulative_data),
                   date_range |-> Cumulative_get_date_range(cumulative_data)]]

Cumulative_Parsed(path, cumulative_data) ==
    Cumulative_Result(path, cumulative_data, calculate_daily_consumption(cumulative_data))

CumulativeParser_parse(path, file) ==
    LET df == SelectSeq(file.rows, LAMBDA row : row # <<>>)
    IN  IF ~file.exists \/ file.header = <<>> THEN Raise("FileProcessingError")
        ELSE IF df = <<>> \/ Len(file.header) < 2
        THEN Raise("FileProcessingError")
        ELSE Ok(Cumulative_Parsed(path,
                                  convert_to_cumulative_series(
                                      file.header, CleanRows(df, CUMULATIVE_FORMAT))))

---------------------------------------------------------------------------
(* FormatDetector                                                          *)
(*                                                                         *)
(* Text is modelled word by word: a cell is the sequence of its words, and *)
(* "pattern in text" is the search for the pattern's words in a row.       *)
(* Accents are dropped from the Hungarian names ("Datum/Ido" is the        *)
(* column the source spells with accents, "OSSZEG" the marker).            *)

\* class DataFormat(Enum)
LEGACY == "legacy"
AP_AM == "ap_am"
CUMULATIVE_180_280 == "180_280"
UNKNOWN == "unknown"
DataFormat == {LEGACY, AP_AM, CUMULATIVE_180_280, UNKNOWN}

MAXIMUM_ERTEK == <<"MAXIMUM", "ERTEK">>
OSSZEG == <<"OSSZEG">>

\* self.format_signatures
format_signatures ==
    [format_type \in {LEGACY, AP_AM, CUMULATIVE_180_280} |->
        IF format_type = LEGACY
        THEN [required_columns |-> {"POD Name", "Variable name", "Time", "Value [kWh]"},
              optional_columns |-> {},
              row_patterns |-> {}]
        ELSE IF format_type = AP_AM
        THEN [required_columns |-> {"Datum/Ido", "+A", "-A"},
              optional_columns |-> {},
              row_patterns |-> {MAXIMUM_ERTEK, OSSZEG}]
        ELSE [required_columns |-> {"Datum"},
              optional_columns |-> {"DP_1-1:1.8.0*0", "DP_1-1:2.8.0*0"},
              row_patterns |-> {MAXIMUM_ERTEK, OSSZEG}]]

\* the order in which format_signatures.items() yields the signatures
SignatureOrder == <<LEGACY, AP_AM, CUMULATIVE_180_280>>

\* the header names the samples are drawn from
ColumnNames ==
    {"POD Name", "Variable name", "Time", "Value [kWh]",
     "Datum/Ido", "+A", "-A", "+A ",
     "Datum", "datum", "DP_1-1:1.8.0*0", "DP_total"}

\* col.strip()
Strip(col) == IF col = "+A " THEN "+A" ELSE col

\* ' '.join(first_column_values)
RECURSIVE Join(_)
Join(cells) == IF cells = <<>> THEN <<>> ELSE Head(cells) \o Join(Tail(cells))

\* pattern in text
Contains(text, pattern) ==
    \E i \in 0..(Len(text) - Len(pattern)) :
        SubSeq(text, i + 1, i + Len(pattern)) = pattern

matches_signature(columns, sample, signature) ==
    /\ signature.required_columns \subseteq columns
    /\ signature = format_signatures[CUMULATIVE_180_280] =>
           \E col \in columns : IsDPColumn(col)
    /\ signature.row_patterns # {} =>
           \E pattern \in signature.row_patterns :
               Contains(Join(sample.first_column), pattern)

EmptyMetadata ==
    [keys |-> {}, format |-> "", columns |-> {}, sample_rows |-> 0,
     interval_type |-> "", has_summary_rows |-> FALSE, data_columns |-> {},
     cumulative_data |-> FALSE]

BaseKeys == {"format", "columns", "sample_rows"}
UpdateKeys == {"interval_type", "has_summary_rows", "data_columns"}

extract_metadata(sample, format_type) ==
    LET base == [EmptyMetadata EXCEPT !.keys = BaseKeys,
                                      !.format = format_type,
                                      !.columns = sample.columns,
                                      !.sample_rows = Len(sample.first_column)]
    IN  IF format_type = AP_AM
        THEN [base EXCEPT !.keys = BaseKeys \cup UpdateKeys,
                          !.interval_type = "15_minute",
                          !.has_summary_rows = TRUE,
                          !.data_columns = {"+A", "-A"}]
        ELSE IF format_type = CUMULATIVE_180_280
        THEN [base EXCEPT !.keys = BaseKeys \cup UpdateKeys \cup {"cumulative_data"},
                          !.interval_type = "daily",
                          !.has_summary_rows = TRUE,
                          !.data_columns = {col \in sample.columns : IsDPColumn(col)},
                          !.cumulative_data = TRUE]
        ELSE IF format_type = LEGACY
        THEN [base EXCEPT !.keys = BaseKeys \cup UpdateKeys,
                          !.interval_type = "mixed",
                          !.has_summary_rows = FALSE,
                          !.data_columns = {"Value [kWh]"}]
        ELSE base

Returned(format_type, metadata) ==
    [raised |-> FALSE, error |-> "", format |-> format_type, metadata |-> metadata]
Raised(error) ==
    [raised |-> TRUE, error |-> error, format |-> UNKNOWN, metadata |-> EmptyMetadata]

\* the signature loop tried in another order
RECURSIVE SignatureLoop_Reversed(_, _, _)
SignatureLoop_Reversed(columns, sample, i) ==
    IF i > Len(SignatureOrder) THEN Returned(UNKNOWN, EmptyMetadata)
    ELSE LET format_type == SignatureOrder[Len(SignatureOrder) + 1 - i]
         IN  IF matches_signature(columns, sample, format_signatures[format_type])
             THEN Returned(format_type, extract_metadata(sample, format_type))
             ELSE SignatureLoop_Reversed(columns, sample, i + 1)

\* for format_type, signature in self.format_signatures.items()
RECURSIVE SignatureLoop(_, _, _)
SignatureLoop(columns, sample, i) ==
    IF i > Len(SignatureOrder) THEN Returned(UNKNOWN, EmptyMetadata)
    ELSE LET format_type == SignatureOrder[i]
         IN  IF matches_signature(columns, sample, format_signatures[format_type])
             THEN Returned(format_type, extract_metadata(sample, format_type))
             ELSE SignatureLoop(columns, sample, i + 1)

\* the body of detect_format's try block
DetectBody(sample) ==
    IF sample.read # "ok" THEN Raised(sample.read)
    ELSE SignatureLoop({Strip(col) : col \in sample.columns}, sample, 1)

\* detect_format with the exception left to propagate
detect_format_NoCatch(sample) == DetectBody(sample)

\* except Exception: return DataFormat.UNKNOWN, {}
CatchAll(ended) ==
    IF ended.raised THEN Returned(UNKNOWN, EmptyMetadata) ELSE ended

detect_format(sample) == CatchAll(DetectBody(sample))

---------------------------------------------------------------------------
(* The files on disk                                                       *)

\* nrows of the classifier's pd.read_csv
SampleRows == 10

\* str(cell) as the classifier sees it: a timestamp and a number are single
\* words that are no marker, an empty cell reads as nan
WordsOf(cell) ==
    IF cell.k = "text" THEN cell.words
    ELSE IF cell.k = "time" THEN <<"timestamp">>
    ELSE IF cell.k = "num" THEN <<"number">>
    ELSE <<"nan">>

\* pd.read_csv(file_path, nrows=10) as the classifier receives it: the
\* first ten rows that are no blank line
SampleOf(file) ==
    IF ~file.exists THEN [read |-> "FileNotFoundError", columns |-> {}, first_column |-> <<>>]
    ELSE IF file.header = <<>>
    THEN [read |-> "EmptyDataError", columns |-> {}, first_column |-> <<>>]
    ELSE LET df == SelectSeq(file.rows, LAMBDA row : row # <<>>)
             n == IF Len(df) < SampleRows THEN Len(df) ELSE SampleRows
         IN  [read |-> "ok",
              columns |-> Range(file.header),
              first_column |-> [i \in 1..n |-> WordsOf(FirstCell(df[i]))]]

\* detect_file_format(file_path, delimiter)
detect_file_format(file) == detect_format(SampleOf(file))

LegacyHeader == <<"POD Name", "Variable name", "Time", "Value [kWh]">>
LegacyRow(variable, ts, value) ==
    <<TextCell(<<"HU000120">>), TextCell(<<variable>>),
      TimeCell(DATETIME_FORMAT, ts), value>>

APAMHeader == <<"Datum/Ido", "+A", "-A">>
APAMRow(ts, import_val, export_val) ==
    <<TimeCell(AP_AM_FORMAT, ts), NumCell(import_val), NumCell(export_val)>>

CumulativeHeader == <<"Datum", "DP_1-1:1.8.0*0", "DP_1-1:2.8.0*0">>
CumulativeRow(day, import_val, export_val) ==
    <<TimeCell(CUMULATIVE_FORMAT, day * MinutesPerDay),
      NumCell(import_val), NumCell(export_val)>>

File(header, rows) == [exists |-> TRUE, header |-> header, rows |-> rows]

\* the files the requests name; values are in units of 1/120000 kWh
FileSystem ==
    [path \in {"missing.csv", "empty.csv", "legacy.csv", "legacy_short.csv",
               "ap_am.csv", "ap_am_2.csv", "ap_am_plain.csv",
               "cumulative.csv", "notes.csv"} |->
        IF path = "missing.csv" THEN [exists |-> FALSE, header |-> <<>>, rows |-> <<>>]
        ELSE IF path = "empty.csv" THEN File(<<>>, <<>>)
        ELSE IF path = "legacy.csv"
        THEN File(LegacyHeader,
                  <<LegacyRow("'DP_1-1:1.8.0*0'", 1 * MinutesPerDay, NumCell(1200000)),
                    LegacyRow("'+A'", 1 * MinutesPerDay + 60, NumCell(240)),
                    LegacyRow("'+A'", 1 * MinutesPerDay, NumCell(96)),
                    LegacyRow("'-A'", 1 * MinutesPerDay, TextCell(<<"n/a">>)),
                    LegacyRow("'-A'", 1 * MinutesPerDay + 15, NumCell(48)),
                    LegacyRow("'Q'", 1 * MinutesPerDay, NumCell(24))>>)
        ELSE IF path = "legacy_short.csv"
        THEN File(LegacyHeader,
                  <<LegacyRow("'+A'", 1 * MinutesPerDay, NumCell(96)),
                    <<TextCell(<<"HU000120">>), TextCell(<<"'+A'">>)>>>>)
        ELSE IF path = "ap_am.csv"
        THEN File(APAMHeader,
                  <<APAMRow(1 * MinutesPerDay + 15, 360, 0),
                    APAMRow(1 * MinutesPerDay, 240, 24),
                    APAMRow(1 * MinutesPerDay + 60, 480, 48),
                    APAMRow(2 * MinutesPerDay, 96, 0),
                    <<TextCell(OSSZEG), NumCell(1176), NumCell(72)>>>>)
        ELSE IF path = "ap_am_2.csv"
        THEN File(APAMHeader,
                  <<APAMRow(1 * MinutesPerDay + 60, 120, 0),
                    APAMRow(2 * MinutesPerDay + 60, 600, 240),
                    <<TextCell(MAXIMUM_ERTEK), NumCell(600), NumCell(240)>>>>)
        ELSE IF path = "ap_am_plain.csv"
        THEN File(APAMHeader, <<<<>>, APAMRow(1 * MinutesPerDay, 240, 0)>>)
        ELSE IF path = "cumulative.csv"
        THEN File(CumulativeHeader,
                  <<CumulativeRow(1, 1200000, 600000),
                    CumulativeRow(2, 1202880, 600000),
                    <<TextCell(MAXIMUM_ERTEK), NumCell(1202880), NumCell(600000)>>>>)
        ELSE File(<<"Name", "Comment">>,
                  <<<<TextCell(<<"meter">>), TextCell(<<"replaced">>)>>>>)]

Paths == DOMAIN FileSystem

---------------------------------------------------------------------------
(* UnifiedParser                                                           *)
(*                                                                         *)
(* An Optional[str] is a sequence of no or one string.  A result is a      *)
(* dict: its `keys` are the keys it has, the fields of absent keys hold    *)
(* an empty value.  `calls` lists the collaborators parse_file invoked.    *)

None == <<>>
Some(x) == <<x>>

\* self.parser_classes
parser_classes ==
    [format_type \in {LEGACY, AP_AM, CUMULATIVE_180_280} |->
        IF format_type = LEGACY THEN "CSVParser"
        ELSE IF format_type = AP_AM THEN "APAMParser"
        ELSE "CumulativeParser"]

NoMetadata ==
    [keys |-> {}, file_path |-> "", total_records |-> 0, date_range |-> NoDateRange]

NoParseResult ==
    [format |-> "", keys |-> {}, raw_data |-> <<>>, cumulative_data |-> <<>>,
     hourly_data |-> <<>>, daily_data |-> <<>>, metadata |-> NoMetadata,
     detection_metadata |-> EmptyMetadata]

\* the words of variable.lower() that decide the series of a legacy record
HasWord(variable, words) == \E i \in 1..Len(variable) : variable[i] \in words

\* the loop of _standardize_legacy_result over legacy_result['data'], here the
\* sequence of its (pod_name, variable, time_str, value) entries: a record for
\* every entry whose time parses and lies on a full hour, in the series
\* wanted.  "float(value) if value else 0.0" makes 0.0 of every falsy value,
\* None and the empty string included, and raises on text that is no number
RECURSIVE LegacyRecords(_, _)
LegacyRecords(data, wanted) ==
    IF data = <<>> THEN <<>>
    ELSE LET entry == Head(data)
             record == [datetime |-> entry.time.n,
                        pod_name |-> entry.pod_name,
                        variable |-> entry.variable,
                        value_kwh |-> entry.value.n]
             series == IF HasWord(entry.variable, {"hour", "oras"}) THEN "hourly"
                       ELSE IF HasWord(entry.variable, {"day", "napi"}) THEN "daily"
                       ELSE "hourly"
         IN  (IF /\ entry.time.k = "time"
                 /\ entry.value.k \in {"num", "empty", "none"}
                 /\ MinuteOf(entry.time.n) = 0
                 /\ series = wanted
              THEN <<record>> ELSE <<>>)
             \o LegacyRecords(Tail(data), wanted)

\* UnifiedParser._standardize_legacy_result; legacy_result is what
\* CSVParser.parse returned, a dict whose keys are the names of its buckets
standardize_legacy_result(legacy_result, file_path) ==
    LET standardized ==
            [NoParseResult EXCEPT
                !.format = "legacy",
                !.keys = {"format", "summary", "hourly_data", "daily_data", "metadata"},
                !.metadata = [NoMetadata EXCEPT
                                 !.keys = {"file_path", "total_records",
                                           "interval_type", "data_columns"},
                                 !.file_path = file_path]]
    IN  IF "data" \in DOMAIN legacy_result
        THEN LET hourly_records == LegacyRecords(legacy_result.data, "hourly")
                 daily_records == LegacyRecords(legacy_result.data, "daily")
             IN  [standardized EXCEPT
                     !.hourly_data = hourly_records,
                     !.daily_data = daily_records,
                     !.metadata.total_records = Len(hourly_records) + Len(daily_records)]
        ELSE standardized

\* how parse_file ended, and the collaborators it invoked on the way
Outcome(raised, error, result, calls) ==
    [raised |-> raised, error |-> error, result |-> result, calls |-> calls]

\* DataFormat(format_override): the member with that value, else a ValueError
DataFormatOf(value) ==
    IF value \in DataFormat THEN Ok(value) ELSE Raise("ValueError")

\* detected_format, metadata = detect_file_format(file_path, delimiter)
Detected(detected) ==
    [raised |-> FALSE, error |-> "",
     format |-> detected.format, metadata |-> detected.metadata,
     calls |-> <<"detect_file_format">>]

\* the override honoured only after the classifier ran
ResolveFormat_AlwaysDetect(file_path, format_override) ==
    LET detected == detect_file_format(FileSystem[file_path])
    IN  IF format_override # None /\ format_override[1] # ""
        THEN IF DataFormatOf(format_override[1]).raised
             THEN [raised |-> TRUE, error |-> "FileProcessingError",
                   format |-> UNKNOWN, metadata |-> EmptyMetadata,
                   calls |-> <<"detect_file_format">>]
             ELSE [raised |-> FALSE, error |-> "",
                   format |-> DataFormatOf(format_override[1]).value,
                   metadata |-> [EmptyMetadata EXCEPT !.keys = {"format"},
                                                      !.format = format_override[1]],
                   calls |-> <<"detect_file_format">>]
        ELSE [raised |-> FALSE, error |-> "",
              format |-> detected.format, metadata |-> detected.metadata,
              calls |-> <<"detect_file_format">>]

\* parse_file, "Detect format unless overridden": None and "" are no override
ResolveFormat(file_path, format_override) ==
    IF format_override # None /\ format_override[1] # ""
    THEN IF DataFormatOf(format_override[1]).raised
         THEN [raised |-> TRUE, error |-> "FileProcessingError",
               format |-> UNKNOWN, metadata |-> EmptyMetadata, calls |-> <<>>]
         ELSE [raised |-> FALSE, error |-> "",
               format |-> DataFormatOf(format_override[1]).value,
               metadata |-> [EmptyMetadata EXCEPT !.keys = {"format"},
                                                  !.format = format_override[1]],
               calls |-> <<>>]
    ELSE Detected(detect_file_format(FileSystem[file_path]))

\* result = self._standardize_legacy_result(result, file_path) and
\* result['detection_metadata'] = metadata, or the parser's exception
LegacyParsed(parsed, file_path, metadata) ==
    IF parsed.raised
    THEN Outcome(TRUE, parsed.error, NoParseResult, <<parser_classes[LEGACY]>>)
    ELSE Outcome(FALSE, "",
                 [standardize_legacy_result(parsed.value, file_path) EXCEPT
                     !.keys = @ \cup {"detection_metadata"},
                     !.detection_metadata = metadata],
                 <<parser_classes[LEGACY]>>)

\* the result of a new parser, with the cumulative readings as its daily data
\* for the cumulative format and with result['detection_metadata'] = metadata,
\* or the parser's exception
NewParsed(parsed, detected_format, metadata) ==
    IF parsed.raised
    THEN Outcome(TRUE, parsed.error, NoParseResult, <<parser_classes[detected_format]>>)
    ELSE Outcome(FALSE, "",
                 [format |-> parsed.value.format,
                  keys |-> parsed.value.keys \cup {"detection_metadata"},
                  raw_data |-> parsed.value.raw_data,
                  cumulative_data |-> parsed.value.cumulative_data,
                  hourly_data |-> parsed.value.hourly_data,
                  daily_data |->
                      IF /\ detected_format = CUMULATIVE_180_280
                         /\ "cumulative_data" \in parsed.value.keys
                      THEN parsed.value.cumulative_data
                      ELSE parsed.value.daily_data,
                  metadata |-> parsed.value.metadata,
                  detection_metadata |-> metadata],
                 <<parser_classes[detected_format]>>)

\* parse_file, "Get appropriate parser class" and "Parse the file"
Dispatch(file_path, detected_format, metadata) ==
    IF detected_format \notin DOMAIN parser_classes
    THEN Outcome(TRUE, "FileProcessingError", NoParseResult, <<>>)
    ELSE IF detected_format = LEGACY
    THEN LegacyParsed(CSVParser_parse(FileSystem[file_path]), file_path, metadata)
    ELSE IF detected_format = AP_AM
    THEN NewParsed(APAMParser_parse(file_path, FileSystem[file_path]),
                   detected_format, metadata)
    ELSE NewParsed(CumulativeParser_parse(file_path, FileSystem[file_path]),
                   detected_format, metadata)

\* the try block of parse_file: the format resolved, then the dispatch on it
AfterCalls(calls, dispatched) == [dispatched EXCEPT !.calls = calls \o @]

Resolved(file_path, resolved) ==
    IF resolved.raised
    THEN Outcome(TRUE, resolved.error, NoParseResult, resolved.calls)
    ELSE AfterCalls(resolved.calls,
                    Dispatch(file_path, resolved.format, resolved.metadata))

ParseBody(file_path, format_override) ==
    Resolved(file_path, ResolveFormat(file_path, format_override))

\* parse_file answering a failure with an empty result
parse_file_EmptyOnFailure(file_path, format_override) ==
    LET body == ParseBody(file_path, format_override)
    IN  IF body.raised
        THEN Outcome(FALSE, "", NoParseResult, body.calls)
        ELSE body

\* UnifiedParser.parse_file: except Exception turns whatever the try block
\* raised into a FileProcessingError
WrapFailure(body) ==
    IF body.raised
    THEN Outcome(TRUE, "FileProcessingError", NoParseResult, body.calls)
    ELSE body

parse_file(file_path, format_override) ==
    WrapFailure(ParseBody(file_path, format_override))

\* get_sort_key of parse_multiple_files: the record's datetime, or its date
\* as a timestamp
get_sort_key(record) ==
    IF "datetime" \in DOMAIN record THEN record.datetime
    ELSE record.date * MinutesPerDay

\* combined_data['daily_data'].sort(key=get_sort_key)
SortBySortKey(s) == StableSort(s, [i \in DOMAIN s |-> get_sort_key(s[i])])

NoOverallRange == [start |-> 0, end |-> 0]

\* combined_data and parsed_files as parse_multiple_files sets them up;
\* `calls` lists the paths handed to parse_file
EmptyCombined(file_paths) ==
    [files |-> <<>>, formats |-> {}, date_ranges |-> <<>>, total_records |-> 0,
     hourly_data |-> <<>>, daily_data |-> <<>>,
     metadata |-> [keys |-> {"file_count", "processing_errors"},
                   file_count |-> Len(file_paths),
                   processing_errors |-> <<>>,
                   overall_date_range |-> NoOverallRange],
     parsed_files |-> <<>>,
     calls |-> <<>>]

\* the error_msg of a file: "Error parsing {file_path}: {e}"
ErrorEntry(file_path, error) == [file_path |-> file_path, error |-> error]

\* a pass that lists the path among the processed files before it parses it
Absorb_ListsEveryPath(file_path, combined, parsed) ==
    LET result == parsed.result
        called == [combined EXCEPT !.calls = Append(@, file_path)]
    IN  IF parsed.raised
        THEN [called EXCEPT !.files = Append(@, file_path),
                            !.metadata.processing_errors =
                                Append(@, ErrorEntry(file_path, parsed.error))]
        ELSE [called EXCEPT
                 !.parsed_files = Append(@, result),
                 !.files = Append(@, file_path),
                 !.formats = @ \cup {result.format},
                 !.total_records = @ + (IF "total_records" \in result.metadata.keys
                                        THEN result.metadata.total_records ELSE 0),
                 !.date_ranges = IF "date_range" \in result.metadata.keys
                                 THEN Append(@, result.metadata.date_range) ELSE @,
                 !.hourly_data = IF "hourly_data" \in result.keys
                                 THEN @ \o result.hourly_data ELSE @,
                 !.daily_data = IF "daily_data" \in result.keys
                                THEN @ \o result.daily_data ELSE @]

\* one pass of "for file_path in file_paths": what the pass makes of the
\* outcome of parse_file, then the pass
Absorb(file_path, combined, parsed) ==
    LET result == parsed.result
        called == [combined EXCEPT !.calls = Append(@, file_path)]
    IN  IF parsed.raised
        THEN [called EXCEPT !.metadata.processing_errors =
                                Append(@, ErrorEntry(file_path, parsed.error))]
        ELSE [called EXCEPT
                 !.parsed_files = Append(@, result),
                 !.files = Append(@, file_path),
                 !.formats = @ \cup {result.format},
                 !.total_records = @ + (IF "total_records" \in result.metadata.keys
                                        THEN result.metadata.total_records ELSE 0),
                 !.date_ranges = IF "date_range" \in result.metadata.keys
                                 THEN Append(@, result.metadata.date_range) ELSE @,
                 !.hourly_data = IF "hourly_data" \in result.keys
                                 THEN @ \o result.hourly_data ELSE @,
                 !.daily_data = IF "daily_data" \in result.keys
                                THEN @ \o result.daily_data ELSE @]

FileStep(file_path, combined) ==
    Absorb(file_path, combined, parse_file(file_path, None))

\* the loop given up at the first file that fails
RECURSIVE FileLoop_StopAtFailure(_, _, _)
FileLoop_StopAtFailure(file_paths, i, combined) ==
    IF i > Len(file_paths) THEN combined
    ELSE IF parse_file(file_paths[i], None).raised
    THEN FileStep(file_paths[i], combined)
    ELSE FileLoop_StopAtFailure(file_paths, i + 1, FileStep(file_paths[i], combined))

\* for file_path in file_paths
RECURSIVE FileLoop(_, _, _)
FileLoop(file_paths, i, combined) ==
    IF i > Len(file_paths) THEN combined
    ELSE FileLoop(file_paths, i + 1, FileStep(file_paths[i], combined))

\* "Calculate overall date range"
WithOverallRange(combined) ==
    LET all_starts == {combined.date_ranges[i].start : i \in
                          {j \in DOMAIN combined.date_ranges :
                              "start" \in combined.date_ranges[j].keys}}
        all_ends == {combined.date_ranges[i].end : i \in
                        {j \in DOMAIN combined.date_ranges :
                            "end" \in combined.date_ranges[j].keys}}
    IN  IF combined.date_ranges # <<>> /\ all_starts # {} /\ all_ends # {}
        THEN [combined EXCEPT
                 !.metadata.keys = @ \cup {"overall_date_range"},
                 !.metadata.overall_date_range =
                     [start |-> Min(all_starts), end |-> Max(all_ends)]]
        ELSE combined

\* UnifiedParser.parse_multiple_files: the loop, the two sorts and the overall
\* date range; nothing in its try block raises, every failure of a file is
\* caught inside the loop
\* a sort that is not stable: records of one timestamp come out in the reverse
\* of their input order
Sorted_TiesReversed(combined) ==
    LET Reversed(s) == [i \in DOMAIN s |-> s[Len(s) + 1 - i]]
    IN  [combined EXCEPT !.hourly_data = SortByKey(Reversed(@), "datetime"),
                         !.daily_data = SortBySortKey(Reversed(@))]

Sorted(combined) ==
    [combined EXCEPT !.hourly_data = SortByKey(@, "datetime"),
                     !.daily_data = SortBySortKey(@)]

parse_multiple_files(file_paths) ==
    [raised |-> FALSE, error |-> "",
     combined |-> WithOverallRange(
                      Sorted(FileLoop(file_paths, 1, EmptyCombined(file_paths))))]

---------------------------------------------------------------------------
(* DataProcessor.validate_processed_data                                   *)

\* len(timestamps) != len(set(timestamps)), timestamps the entries' starts
HasDuplicateStart(entries) ==
    Len(entries) # Cardinality({entries[i].start : i \in DOMAIN entries})

\* a validator that returns at the first direction without entries
validate_processed_data_StopAtEmpty(processed) ==
    IF processed.import = <<>> THEN Ok(None)
    ELSE IF HasDuplicateStart(processed.import) THEN Raise("DataValidationError")
    ELSE IF processed.export # <<>> /\ HasDuplicateStart(processed.export)
    THEN Raise("DataValidationError")
    ELSE Ok(None)

\* the loop over the directions, 'import' then 'export' as process_data
\* inserted them: a direction without entries is passed over, duplicate starts
\* raise, negative and very large sums are only logged
validate_processed_data(processed) ==
    IF processed.import # <<>> /\ HasDuplicateStart(processed.import)
    THEN Raise("DataValidationError")
    ELSE IF processed.export # <<>> /\ HasDuplicateStart(processed.export)
    THEN Raise("DataValidationError")
    ELSE Ok(None)

---------------------------------------------------------------------------
(* The reconstruction specification: a parsed file's buckets, then         *)
(* process_data on them.                                                   *)

Timestamps == {d * MinutesPerDay + t : d \in Days, t \in TimesOfDay}
DeltaEntries == [timestamp : Timestamps, value : DeltaValues]
BaselineEntries == [timestamp : {d * MinutesPerDay : d \in Days}, value : BaselineValues]

SeqsUpTo(S, n) == UNION {[1..k -> S] : k \in 0..n}

\* CSVParser._validate_parsed_data leaves every bucket sorted by timestamp
IsSortedByTimestamp(s) ==
    \A i \in 1..(Len(s) - 1) : s[i].timestamp <= s[i + 1].timestamp

HourlyBuckets == {s \in SeqsUpTo(DeltaEntries, MaxHourly) : IsSortedByTimestamp(s)}
DailyBuckets == {s \in SeqsUpTo(BaselineEntries, MaxDaily) : IsSortedByTimestamp(s)}

\* what the other direction holds while one direction ranges over every bucket
OtherHourly == {<<>>, <<[timestamp |-> 1 * MinutesPerDay, value |-> 96]>>}
OtherDaily == {<<>>, <<[timestamp |-> 1 * MinutesPerDay, value |-> 120000]>>}

\* the buckets with `primary` ranging over every bucket and the other direction
\* over the few above
Buckets(primary, h, d, oh, od) ==
    IF primary = "import"
    THEN [import_hourly |-> h, import_daily |-> d, export_hourly |-> oh, export_daily |-> od]
    ELSE [import_hourly |-> oh, import_daily |-> od, export_hourly |-> h, export_daily |-> d]

NoResult == [import |-> <<>>, export |-> <<>>]

EmptyParsed ==
    [import_hourly |-> <<>>, import_daily |-> <<>>,
     export_hourly |-> <<>>, export_daily |-> <<>>]

NoSample == [read |-> "none", columns |-> {}, first_column |-> <<>>]

\* the parts of the state a specification leaves alone
ReconIdle ==
    /\ parsed_data = EmptyParsed
    /\ processed_data = NoResult
    /\ pd_pc = "idle"
    /\ validation = Ok(None)
DetIdle ==
    df_sample = NoSample /\ det_result = Returned(UNKNOWN, EmptyMetadata) /\ det_pc = "idle"

NoRequest ==
    [op |-> "none", file_path |-> "", format_override |-> None, file_paths |-> <<>>]
NoOutcome == Outcome(FALSE, "", NoParseResult, <<>>)
NoCombinedOutcome == [raised |-> FALSE, error |-> "", combined |-> EmptyCombined(<<>>)]

ParseIdle ==
    /\ up_request = NoRequest
    /\ pf_outcome = NoOutcome
    /\ pmf_outcome = NoCombinedOutcome
    /\ up_pc = "idle"

NoFile == [exists |-> FALSE, header |-> <<>>, rows |-> <<>>]

\* the two calls
Calls == {1, 2}

NoResolved ==
    [raised |-> FALSE, error |-> "", format |-> UNKNOWN, metadata |-> EmptyMetadata,
     calls |-> <<>>]

NoCall ==
    [file_path |-> "", format_override |-> None, pc |-> "idle", resolved |-> NoResolved,
     parser |-> 0, cumulative_data |-> <<>>, outcome |-> NoOutcome]

ConcurrentIdle == cc_calls = [t \in Calls |-> NoCall] /\ cc_heap = <<>>

ParserIdle ==
    /\ pr_parser = "none"
    /\ pr_file = NoFile
    /\ csv_outcome = Ok(EmptyData)
    /\ new_outcome = Ok(NoParseResult)
    /\ pr_pc = "idle"

\* the watcher before it is started
Handlers == {1, 2}
NoHandler == [pc |-> "idle", file_path |-> "", outcome |-> ""]
WatcherIdle ==
    /\ fw_auto = FALSE
    /\ fw_processing = {}
    /\ fw_handlers = [h \in Handlers |-> NoHandler]
    /\ fw_log = <<>>
    /\ fw_handled = 0

InitRecon ==
    /\ WatcherIdle
    /\ ConcurrentIdle
    /\ DetIdle
    /\ ParseIdle
    /\ ParserIdle
    /\ \E primary \in Directions, h \in HourlyBuckets, d \in DailyBuckets,
          oh \in OtherHourly, od \in OtherDaily :
            parsed_data = Buckets(primary, h, d, oh, od)
    /\ processed_data = NoResult
    /\ pd_pc = "ready"
    /\ validation = Ok(None)

ProcessData ==
    /\ pd_pc = "ready"
    /\ processed_data' = process_data(parsed_data)
    /\ pd_pc' = "done"
    /\ UNCHANGED <<parsed_data, validation, det_vars, up_vars, pr_vars, cc_vars, fw_vars>>

\* cli.py: processor.validate_processed_data(processed_data), right after
\* process_data; the call assigns to nothing in processed_data
ValidateProcessedData ==
    /\ pd_pc = "done"
    /\ validation' = validate_processed_data(processed_data)
    /\ pd_pc' = "validated"
    /\ UNCHANGED <<parsed_data, processed_data, det_vars, up_vars, pr_vars, cc_vars, fw_vars>>

NextRecon == ProcessData \/ ValidateProcessedData

SpecRecon == InitRecon /\ [][NextRecon]_vars

---------------------------------------------------------------------------
(* The classifier specification: a sample as pd.read_csv returns it (or    *)
(* the exception it raises), then detect_format on it.                     *)

SampleCells ==
    {<<"2024.01.01.">>, MAXIMUM_ERTEK, OSSZEG, <<"osszeg">>, <<"MAXIMUM">>, <<"ERTEK">>}

ReadErrors == {"FileNotFoundError", "EmptyDataError", "ParserError"}

InitDetect ==
    /\ WatcherIdle
    /\ ConcurrentIdle
    /\ ReconIdle
    /\ ParseIdle
    /\ ParserIdle
    /\ \/ \E columns \in (SUBSET ColumnNames) \ {{}},
            first_column \in SeqsUpTo(SampleCells, MaxSampleRows) :
              df_sample = [read |-> "ok", columns |-> columns, first_column |-> first_column]
       \/ \E error \in ReadErrors :
              df_sample = [read |-> error, columns |-> {}, first_column |-> <<>>]
    /\ det_result = Returned(UNKNOWN, EmptyMetadata)
    /\ det_pc = "ready"

DetectFormat ==
    /\ det_pc = "ready"
    /\ det_result' = detect_format(df_sample)
    /\ det_pc' = "done"
    /\ UNCHANGED <<df_sample, recon_vars, up_vars, pr_vars, cc_vars, fw_vars>>

NextDetect == DetectFormat

SpecDetect == InitDetect /\ [][NextDetect]_vars

---------------------------------------------------------------------------
(* The parsing specification: a call of parse_file or parse_multiple_files *)
(* on the files on disk.                                                   *)

MaxFiles == 3

\* the format_override arguments: none, the empty string, the values of
\* DataFormat, and strings that are no value of it
Overrides ==
    {None, Some(""), Some(LEGACY), Some(AP_AM), Some(CUMULATIVE_180_280),
     Some(UNKNOWN), Some("invalid_format"), Some("cumulative_180_280")}

InitParse ==
    /\ WatcherIdle
    /\ ConcurrentIdle
    /\ ReconIdle
    /\ DetIdle
    /\ ParserIdle
    /\ \/ \E file_path \in Paths, format_override \in Overrides :
             up_request = [op |-> "parse_file", file_path |-> file_path,
                           format_override |-> format_override, file_paths |-> <<>>]
       \/ \E file_paths \in SeqsUpTo(Paths, MaxFiles) :
             up_request = [op |-> "parse_multiple_files", file_path |-> "",
                           format_override |-> None, file_paths |-> file_paths]
    /\ pf_outcome = NoOutcome
    /\ pmf_outcome = NoCombinedOutcome
    /\ up_pc = "ready"

ParseFile ==
    /\ up_pc = "ready"
    /\ up_request.op = "parse_file"
    /\ pf_outcome' = parse_file(up_request.file_path, up_request.format_override)
    /\ up_pc' = "done"
    /\ UNCHANGED <<up_request, pmf_outcome, recon_vars, det_vars, pr_vars, cc_vars, fw_vars>>

ParseMultipleFiles ==
    /\ up_pc = "ready"
    /\ up_request.op = "parse_multiple_files"
    /\ pmf_outcome' = parse_multiple_files(up_request.file_paths)
    /\ up_pc' = "done"
    /\ UNCHANGED <<up_request, pf_outcome, recon_vars, det_vars, pr_vars, cc_vars, fw_vars>>

NextParse == ParseFile \/ ParseMultipleFiles

SpecParse == InitParse /\ [][NextParse]_vars

---------------------------------------------------------------------------
(* The parser specification: one of the three parsers on a file of a few   *)
(* rows, good and bad, under a header that has the parser's columns or     *)
(* lacks one.                                                              *)

MaxRows == 3

\* an interval file has up to MaxIntervalRows rows: two readings of one hour,
\* a reading of another hour of the day and a summary row fit into one file
MaxIntervalRows == 4

\* the rows of a legacy file: interval and baseline readings of both
\* directions, two of them at the same time, rows with a bad time, a bad or
\* empty value or a category that is none of the four (one of them '+A'
\* without its quotes), a row that ends before the value, and a row with a
\* bad time and a fifth cell that holds a good one, and a blank line
LegacyRows ==
    {LegacyRow("'+A'", 1 * MinutesPerDay + 60, NumCell(240)),
     LegacyRow("'+A'", 1 * MinutesPerDay + 60, NumCell(96)),
     LegacyRow("'+A'", 1 * MinutesPerDay, NumCell(48)),
     LegacyRow("'DP_1-1:1.8.0*0'", 1 * MinutesPerDay, NumCell(1200000)),
     <<TextCell(<<"HU000120">>), TextCell(<<"'-A'">>), TextCell(<<"invalid_date">>),
       NumCell(24)>>,
     LegacyRow("'-A'", 1 * MinutesPerDay, TextCell(<<"invalid_number">>)),
     LegacyRow("'+A'", 1 * MinutesPerDay, EmptyCell),
     LegacyRow("'Q'", 1 * MinutesPerDay, NumCell(24)),
     LegacyRow("'-A'", 1 * MinutesPerDay + 60, NumCell(120)),
     LegacyRow("'DP_1-1:2.8.0*0'", 1 * MinutesPerDay, NumCell(600000)),
     LegacyRow("+A", 1 * MinutesPerDay + 60, NumCell(24)),
     <<TextCell(<<"HU000120">>), TextCell(<<"'+A'">>),
       TimeCell(DATETIME_FORMAT, 2 * MinutesPerDay)>>,
     <<TextCell(<<"HU000120">>), TextCell(<<"'+A'">>), TextCell(<<"invalid_date">>),
       NumCell(48), TimeCell(DATETIME_FORMAT, 1 * MinutesPerDay + 120)>>,
     <<>>}

\* the headers of a legacy file: the required columns, a header without the
\* Time column, and a header that repeats it in a column no row reaches
LegacyHeaders ==
    {LegacyHeader,
     <<"POD Name", "Variable name", "Date", "Value [kWh]">>,
     <<"POD Name", "Variable name", "Time", "Value [kWh]", "Time">>}

\* the rows of an interval file: readings of two hours of one day and of
\* another day, two of them at the same time and one that exports more than
\* it imports, a summary row, rows with a bad time or a value that is no
\* number, and a blank line
IntervalRows ==
    {APAMRow(1 * MinutesPerDay + 15, 360, 0),
     APAMRow(1 * MinutesPerDay + 15, 240, 24),
     APAMRow(1 * MinutesPerDay, 480, 48),
     APAMRow(1 * MinutesPerDay + 45, 240, 120),
     APAMRow(1 * MinutesPerDay + 75, 120, 240),
     APAMRow(2 * MinutesPerDay, 96, 0),
     <<TextCell(OSSZEG), NumCell(1176), NumCell(72)>>,
     <<TextCell(<<"invalid_date">>), NumCell(240), NumCell(0)>>,
     <<TimeCell(AP_AM_FORMAT, 1 * MinutesPerDay + 30), TextCell(<<"n/a">>), NumCell(0)>>,
     <<>>}

IntervalHeaders == {APAMHeader, <<"Datum/Ido", "+A", "Q">>}

\* the rows of a cumulative file: readings of three days, a second reading of
\* the second day, a summary row, and rows with a bad date or a value that is
\* no number; two readings with a fourth decimal, 9.9764 kWh on the day
\* before the others and 10.0238 kWh on the second day.  A reading with a
\* fourth decimal is either the first reading of a file or follows whole
\* readings whose differences to it round to a multiple of 0.024 kWh, so that
\* no running total lies halfway between two thousandths.
CumulativeRows ==
    {CumulativeRow(0, 1197168, 600000),
     CumulativeRow(2, 1202856, 600000),
     CumulativeRow(1, 1200000, 600000),
     CumulativeRow(2, 1202880, 600000),
     CumulativeRow(2, 1205760, 602880),
     CumulativeRow(3, 1488000, 602880),
     <<TextCell(MAXIMUM_ERTEK), NumCell(1488000), NumCell(602880)>>,
     <<TextCell(<<"invalid_date">>), NumCell(1200000), NumCell(600000)>>,
     <<TimeCell(CUMULATIVE_FORMAT, 2 * MinutesPerDay), TextCell(<<"n/a">>),
       NumCell(600000)>>,
     <<>>}

CumulativeHeaders ==
    {CumulativeHeader, <<"Datum", "DP_1-1:1.8.0*0", "Export">>, <<"Datum", "+A", "-A">>}

InitParser ==
    /\ WatcherIdle
    /\ ConcurrentIdle
    /\ ReconIdle
    /\ DetIdle
    /\ ParseIdle
    /\ \/ \E header \in LegacyHeaders, rows \in SeqsUpTo(LegacyRows, MaxRows) :
             pr_parser = "CSVParser" /\ pr_file = File(header, rows)
       \/ \E header \in IntervalHeaders, rows \in SeqsUpTo(IntervalRows, MaxIntervalRows) :
             pr_parser = "APAMParser" /\ pr_file = File(header, rows)
       \/ \E header \in CumulativeHeaders, rows \in SeqsUpTo(CumulativeRows, MaxRows) :
             pr_parser = "CumulativeParser" /\ pr_file = File(header, rows)
       \/ \E parser \in {"CSVParser", "APAMParser", "CumulativeParser"},
             file \in {NoFile, File(<<>>, <<>>)} :
             pr_parser = parser /\ pr_file = file
    /\ csv_outcome = Ok(EmptyData)
    /\ new_outcome = Ok(NoParseResult)
    /\ pr_pc = "ready"

LegacyParse ==
    /\ pr_pc = "ready"
    /\ pr_parser = "CSVParser"
    /\ csv_outcome' = CSVParser_parse(pr_file)
    /\ pr_pc' = "done"
    /\ UNCHANGED <<pr_parser, pr_file, new_outcome, recon_vars, det_vars, up_vars, cc_vars, fw_vars>>

IntervalParse ==
    /\ pr_pc = "ready"
    /\ pr_parser = "APAMParser"
    /\ new_outcome' = APAMParser_parse("input.csv", pr_file)
    /\ pr_pc' = "done"
    /\ UNCHANGED <<pr_parser, pr_file, csv_outcome, recon_vars, det_vars, up_vars, cc_vars, fw_vars>>

CumulativeParse ==
    /\ pr_pc = "ready"
    /\ pr_parser = "CumulativeParser"
    /\ new_outcome' = CumulativeParser_parse("input.csv", pr_file)
    /\ pr_pc' = "done"
    /\ UNCHANGED <<pr_parser, pr_file, csv_outcome, recon_vars, det_vars, up_vars, cc_vars, fw_vars>>

NextParser == LegacyParse \/ IntervalParse \/ CumulativeParse

SpecParser == InitParser /\ [][NextParser]_vars

---------------------------------------------------------------------------
(* The concurrent specification: two parse_file calls on one UnifiedParser,*)
(* on different files, their steps interleaved in any order.  What a call  *)
(* holds in local variables is in its record of cc_calls; what it holds in *)
(* an object, the parser instance and its cumulative_data field, is in     *)
(* cc_heap, which every call can reach.                                    *)

ConcurrentOverrides == {None, Some(CUMULATIVE_180_280)}

\* a parser instance as its constructor leaves it: no cumulative_data yet
NewParser(class) == [class |-> class, cumulative_data |-> <<>>]

\* one parser instance for each class, built once and handed to every call
NewInstance_Shared(heap, class) ==
    IF \E r \in DOMAIN heap : heap[r].class = class
    THEN CHOOSE r \in DOMAIN heap : heap[r].class = class
    ELSE Len(heap) + 1

\* parser = parser_class(...): the reference of the instance the call gets,
\* a new one for every call
NewInstance(heap, class) == Len(heap) + 1

\* the heap with the instance behind reference r, built if r is new
Allocated(heap, r, class) ==
    IF r \in DOMAIN heap THEN heap ELSE Append(heap, NewParser(class))

InitConcurrent ==
    /\ WatcherIdle
    /\ ReconIdle
    /\ DetIdle
    /\ ParseIdle
    /\ ParserIdle
    /\ \E p1, p2 \in Paths, o1, o2 \in ConcurrentOverrides :
           /\ p1 # p2
           /\ cc_calls = [t \in Calls |->
                            [NoCall EXCEPT !.file_path = IF t = 1 THEN p1 ELSE p2,
                                           !.format_override = IF t = 1 THEN o1 ELSE o2,
                                           !.pc = "start"]]
    /\ cc_heap = <<>>

\* the call ends: parse_file returns or raises
Finished(t, body) ==
    cc_calls' = [cc_calls EXCEPT ![t].outcome = WrapFailure(body), ![t].pc = "done"]

\* parse_file, "Detect format unless overridden"
ResolveStep(t) ==
    /\ cc_calls[t].pc = "start"
    /\ cc_calls' = [cc_calls EXCEPT
                      ![t].resolved = ResolveFormat(cc_calls[t].file_path,
                                                    cc_calls[t].format_override),
                      ![t].pc = "resolved"]
    /\ UNCHANGED <<cc_heap, recon_vars, det_vars, up_vars, pr_vars, fw_vars>>

\* the format did not resolve, or no parser class is there for it
NoParserStep(t) ==
    /\ cc_calls[t].pc = "resolved"
    /\ cc_calls[t].resolved.raised \/ cc_calls[t].resolved.format \notin DOMAIN parser_classes
    /\ Finished(t, Resolved(cc_calls[t].file_path, cc_calls[t].resolved))
    /\ UNCHANGED <<cc_heap, recon_vars, det_vars, up_vars, pr_vars, fw_vars>>

\* parser = parser_class() or parser_class(file_path, delimiter)
InstantiateStep(t) ==
    /\ cc_calls[t].pc = "resolved"
    /\ ~cc_calls[t].resolved.raised
    /\ cc_calls[t].resolved.format \in DOMAIN parser_classes
    /\ cc_calls' = [cc_calls EXCEPT
                      ![t].parser = NewInstance(cc_heap,
                                                parser_classes[cc_calls[t].resolved.format]),
                      ![t].pc = "instantiated"]
    /\ cc_heap' = Allocated(cc_heap,
                            NewInstance(cc_heap, parser_classes[cc_calls[t].resolved.format]),
                            parser_classes[cc_calls[t].resolved.format])
    /\ UNCHANGED <<recon_vars, det_vars, up_vars, pr_vars, fw_vars>>

\* the legacy and the interval parser: parse keeps everything in local
\* variables, so the rest of parse_file is one step
ParseStep(t) ==
    /\ cc_calls[t].pc = "instantiated"
    /\ cc_heap[cc_calls[t].parser].class # "CumulativeParser"
    /\ Finished(t, Resolved(cc_calls[t].file_path, cc_calls[t].resolved))
    /\ UNCHANGED <<cc_heap, recon_vars, det_vars, up_vars, pr_vars, fw_vars>>

\* CumulativeParser.parse up to self.cumulative_data = cumulative_data, or
\* the FileProcessingError of a file that does not read
ConvertStep(t) ==
    /\ cc_calls[t].pc = "instantiated"
    /\ cc_heap[cc_calls[t].parser].class = "CumulativeParser"
    /\ LET file == FileSystem[cc_calls[t].file_path]
           cumulative_data ==
               convert_to_cumulative_series(file.header,
                                            CleanRows(file.rows, CUMULATIVE_FORMAT))
       IN  IF CumulativeParser_parse(cc_calls[t].file_path, file).raised
           THEN /\ Finished(t, Resolved(cc_calls[t].file_path, cc_calls[t].resolved))
                /\ UNCHANGED cc_heap
           ELSE /\ cc_calls' = [cc_calls EXCEPT ![t].cumulative_data = cumulative_data,
                                               ![t].pc = "converted"]
                /\ cc_heap' = [cc_heap EXCEPT
                                 ![cc_calls[t].parser].cumulative_data = cumulative_data]
    /\ UNCHANGED <<recon_vars, det_vars, up_vars, pr_vars, fw_vars>>

\* the result dict of CumulativeParser.parse, with the hourly series that
\* _distribute_to_hourly makes of self.cumulative_data
Cumulative_ResultOf(path, cumulative_data, daily_consumption, self) ==
    [Cumulative_Result(path, cumulative_data, daily_consumption) EXCEPT
        !.hourly_data = distribute_to_hourly(daily_consumption, self.cumulative_data)]

\* the rest of CumulativeParser.parse, _distribute_to_hourly reading
\* self.cumulative_data, and the rest of parse_file
DistributeStep(t) ==
    /\ cc_calls[t].pc = "converted"
    /\ Finished(t, AfterCalls(cc_calls[t].resolved.calls,
                              NewParsed(Ok(Cumulative_ResultOf(
                                               cc_calls[t].file_path,
                                               cc_calls[t].cumulative_data,
                                               calculate_daily_consumption(
                                                   cc_calls[t].cumulative_data),
                                               cc_heap[cc_calls[t].parser])),
                                        cc_calls[t].resolved.format,
                                        cc_calls[t].resolved.metadata)))
    /\ UNCHANGED <<cc_heap, recon_vars, det_vars, up_vars, pr_vars, fw_vars>>

NextConcurrent ==
    \E t \in Calls :
        \/ ResolveStep(t)
        \/ NoParserStep(t)
        \/ InstantiateStep(t)
        \/ ParseStep(t)
        \/ ConvertStep(t)
        \/ DistributeStep(t)

SpecConcurrent == InitConcurrent /\ [][NextConcurrent]_vars

---------------------------------------------------------------------------
(* The folder watcher (addon/file_watcher.py): created and moved events    *)
(* delivered to one EONFileHandler.  The observer of main() delivers them  *)
(* on one thread; a second handler thread stands for a second schedule of  *)
(* the same handler, so that process_file can be called while a call is    *)
(* under way.  A thread can be switched at the three blocking calls        *)
(* (time.sleep, subprocess.run, requests.post) and between the test of     *)
(* self.processing and the add.                                            *)

MaxEvents == 3        \* most events delivered

ALLOWED_EXTENSIONS == {".csv", ".xlsx", ".xls"}

WatchedPaths == {"a.csv", "b.XLSX", "notes.txt"}

\* Path(p).suffix.lower()
SuffixLower(path) ==
    IF path = "a.csv" THEN ".csv"
    ELSE IF path = "b.XLSX" THEN ".xlsx"
    ELSE IF path = "notes.txt" THEN ".txt"
    ELSE ""

\* the events of the watched folder: a file or a directory created, or moved
\* there from a temporary name
FileEvents ==
    [kind : {"created"}, is_directory : BOOLEAN, src_path : WatchedPaths, dest_path : {""}]
    \cup [kind : {"moved"}, is_directory : BOOLEAN, src_path : {"upload.tmp"},
          dest_path : WatchedPaths]

\* how subprocess.run and what follows it can end: exit code 0, another exit
\* code, or an exception raised inside the try block
RunOutcomes == {"success", "error", "exception"}

\* a call of the logger in process_file: the message and the file it names
LogEntry(msg, path) == [msg |-> msg, file |-> path]

\* the message logged when the run ended
OutcomeMessage(outcome) ==
    IF outcome = "success" THEN "Successfully processed"
    ELSE IF outcome = "error" THEN "Error processing"
    ELSE "Exception processing"

\* a handler that forgets the path only after a successful run
Discard_OnSuccess(processing, path, outcome) ==
    IF outcome = "success" THEN processing \ {path} ELSE processing

\* finally: self.processing.discard(str(file_path))
Discard(processing, path, outcome) == processing \ {path}

InitWatcher ==
    /\ ConcurrentIdle
    /\ ReconIdle
    /\ DetIdle
    /\ ParseIdle
    /\ ParserIdle
    /\ fw_auto \in BOOLEAN
    /\ fw_processing = {}
    /\ fw_handlers = [h \in Handlers |-> NoHandler]
    /\ fw_log = <<>>
    /\ fw_handled = 0

\* on_created and on_moved up to the call of process_file: directories and
\* other suffixes are passed over, the rest is, with AUTO_PROCESS, handed to
\* process_file after the sleep
Deliver(h, is_directory, file_path) ==
    /\ fw_handled < MaxEvents
    /\ fw_handlers[h].pc = "idle"
    /\ fw_handled' = fw_handled + 1
    /\ IF is_directory \/ SuffixLower(file_path) \notin ALLOWED_EXTENSIONS
       THEN UNCHANGED fw_handlers
       ELSE fw_handlers' =
                IF fw_auto
                THEN [fw_handlers EXCEPT ![h] = [pc |-> "called", file_path |-> file_path,
                                                 outcome |-> ""]]
                ELSE fw_handlers
    /\ UNCHANGED <<fw_auto, fw_processing, fw_log, recon_vars, det_vars, up_vars, pr_vars, cc_vars>>

OnCreated(h) ==
    \E event \in FileEvents :
        /\ event.kind = "created"
        /\ Deliver(h, event.is_directory, event.src_path)

OnMoved(h) ==
    \E event \in FileEvents :
        /\ event.kind = "moved"
        /\ Deliver(h, event.is_directory, event.dest_path)

\* process_file runs on its handler's thread and holds no lock: between any
\* two of its statements the other handler may take steps of its own.

\* process_file: the test "str(file_path) in self.processing"
EnterProcessFile(h) ==
    /\ fw_handlers[h].pc = "called"
    /\ fw_handlers' =
           [fw_handlers EXCEPT ![h].pc =
               IF fw_handlers[h].file_path \in fw_processing THEN "refused" ELSE "entered"]
    /\ UNCHANGED <<fw_auto, fw_processing, fw_log, fw_handled,
                   recon_vars, det_vars, up_vars, pr_vars, cc_vars>>

\* process_file after the test found the path: the log line and the return
ReturnEarly(h) ==
    /\ fw_handlers[h].pc = "refused"
    /\ fw_log' = Append(fw_log, LogEntry("is already being processed",
                                         fw_handlers[h].file_path))
    /\ fw_handlers' = [fw_handlers EXCEPT ![h] = NoHandler]
    /\ UNCHANGED <<fw_auto, fw_processing, fw_handled,
                   recon_vars, det_vars, up_vars, pr_vars, cc_vars>>

\* process_file: self.processing.add(str(file_path))
AddProcessing(h) ==
    /\ fw_handlers[h].pc = "entered"
    /\ fw_processing' = fw_processing \cup {fw_handlers[h].file_path}
    /\ fw_handlers' = [fw_handlers EXCEPT ![h].pc = "added"]
    /\ UNCHANGED <<fw_auto, fw_log, fw_handled,
                   recon_vars, det_vars, up_vars, pr_vars, cc_vars>>

\* process_file: the log line "Processing file", and on to subprocess.run
StartRun(h) ==
    /\ fw_handlers[h].pc = "added"
    /\ fw_log' = Append(fw_log, LogEntry("Processing file", fw_handlers[h].file_path))
    /\ fw_handlers' = [fw_handlers EXCEPT ![h].pc = "running"]
    /\ UNCHANGED <<fw_auto, fw_processing, fw_handled,
                   recon_vars, det_vars, up_vars, pr_vars, cc_vars>>

\* process_file: the run ends one way or another and the outcome is logged,
\* with the path still in the set.  After exit code 0 the call goes on to
\* requests.post, after another exit code or an exception to the finally
\* clause
EndRun(h) ==
    /\ fw_handlers[h].pc = "running"
    /\ \E outcome \in RunOutcomes :
           /\ fw_log' = Append(fw_log, LogEntry(OutcomeMessage(outcome),
                                                fw_handlers[h].file_path))
           /\ fw_handlers' =
                  [fw_handlers EXCEPT
                      ![h].pc = IF outcome = "success" THEN "notifying" ELSE "leaving",
                      ![h].outcome = outcome]
    /\ UNCHANGED <<fw_auto, fw_processing, fw_handled,
                   recon_vars, det_vars, up_vars, pr_vars, cc_vars>>

\* process_file after a successful run: requests.post returns or raises, and
\* the bare except swallows whatever it raised
Notify(h) ==
    /\ fw_handlers[h].pc = "notifying"
    /\ fw_handlers' = [fw_handlers EXCEPT ![h].pc = "leaving"]
    /\ UNCHANGED <<fw_auto, fw_processing, fw_log, fw_handled,
                   recon_vars, det_vars, up_vars, pr_vars, cc_vars>>

\* process_file: the finally clause discards the path, and the call returns
Finally(h) ==
    /\ fw_handlers[h].pc = "leaving"
    /\ fw_processing' = Discard(fw_processing, fw_handlers[h].file_path,
                                fw_handlers[h].outcome)
    /\ fw_handlers' = [fw_handlers EXCEPT ![h] = NoHandler]
    /\ UNCHANGED <<fw_auto, fw_log, fw_handled,
                   recon_vars, det_vars, up_vars, pr_vars, cc_vars>>

NextWatcher ==
    \E h \in Handlers :
        \/ OnCreated(h)
        \/ OnMoved(h)
        \/ EnterProcessFile(h)
        \/ ReturnEarly(h)
        \/ AddProcessing(h)
        \/ StartRun(h)
        \/ EndRun(h)
        \/ Notify(h)
        \/ Finally(h)

SpecWatcher == InitWatcher /\ [][NextWatcher]_vars

---------------------------------------------------------------------------
(* Claims about the reconstruction walk                                    *)

DailyOf(dir) ==
    IF dir = "import" THEN parsed_data.import_daily ELSE parsed_data.export_daily
HourlyOf(dir) ==
    IF dir = "import" THEN parsed_data.import_hourly ELSE parsed_data.export_hourly

\* the sum of the deltas of H before position j that lie on the date of H[j]
RECURSIVE PrecedingSum(_, _, _)
PrecedingSum(H, j, k) ==
    IF k >= j THEN 0
    ELSE (IF DateOf(H[k].timestamp) = DateOf(H[j].timestamp) THEN H[k].value ELSE 0)
         + PrecedingSum(H, j, k + 1)

\* the (baseline, delta) pairs that emit: the delta lies on the baseline's
\* date, at the top of an hour
EmittingPairs(D, H) ==
    {p \in (1..Len(D)) \X (1..Len(H)) :
        /\ DateOf(H[p[2]].timestamp) = DateOf(D[p[1]].timestamp)
        /\ MinuteOf(H[p[2]].timestamp) = 0}

\* the position of a pair's point in the output: pairs in baseline order,
\* then delta order
PositionOf(p, P) ==
    1 + Cardinality({q \in P : q[1] < p[1] \/ (q[1] = p[1] /\ q[2] < p[2])})

\* every pair emitted exactly one point, which holds Shown(baseline value +
\* the day's deltas before it)
WalkEmits(dir, Shown(_)) ==
    LET D == SortByTimestamp(DailyOf(dir))
        H == SortByTimestamp(HourlyOf(dir))
        P == EmittingPairs(D, H)
        out == processed_data[dir]
    IN  /\ Len(out) = Cardinality(P)
        /\ \A p \in P :
              LET total == D[p[1]].value + PrecedingSum(H, p[2], 1)
                  point == out[PositionOf(p, P)]
              IN  /\ point.start = FormatStart(H[p[2]].timestamp)
                  /\ point.state = Shown(total)
                  /\ point.sum = Shown(total)

Anchored(dir) == DailyOf(dir) # <<>> /\ HourlyOf(dir) # <<>>

Unrounded(x) == x

\* C1 as stated: each delta at minute 0 of a baseline day emits exactly one
\* point whose state is the baseline plus the day's earlier deltas, exactly.
C1_StateIsExactSum ==
    pd_pc = "done" => \A dir \in Directions : Anchored(dir) => WalkEmits(dir, Unrounded)

\* C1 amended: each delta at minute 0 of a baseline day emits exactly one
\* point, before the delta is added; its state and sum are the baseline plus
\* the day's earlier deltas (negative ones unclamped, those off the hour
\* included), rounded to three decimals.
C1_EmitBeforeAdd ==
    pd_pc = "done" => \A dir \in Directions : Anchored(dir) => WalkEmits(dir, Round3)

\* C1 witness: a point was emitted after a negative delta and after a delta
\* off the hour had been added to the running total of its day.
C1_Witness ==
    /\ pd_pc = "done"
    /\ \E dir \in Directions :
          /\ Anchored(dir)
          /\ LET D == SortByTimestamp(DailyOf(dir))
                 H == SortByTimestamp(HourlyOf(dir))
             IN  \E p \in EmittingPairs(D, H) :
                   /\ \E k \in 1..(p[2] - 1) :
                         /\ DateOf(H[k].timestamp) = DateOf(H[p[2]].timestamp)
                         /\ H[k].value < 0
                         /\ MinuteOf(H[k].timestamp) # 0
                   /\ processed_data[dir][PositionOf(p, EmittingPairs(D, H))].state
                        < D[p[1]].value

BaselineDates(dir) == {DateOf(DailyOf(dir)[i].timestamp) : i \in 1..Len(DailyOf(dir))}
DeltaDates(dir) == {DateOf(HourlyOf(dir)[i].timestamp) : i \in 1..Len(HourlyOf(dir))}
PointDates(dir) == {processed_data[dir][i].start[1] : i \in 1..Len(processed_data[dir])}

\* C2 as stated: every emitted point lies on the date of some baseline of
\* its direction, also when the direction has no baseline at all.
C2_NoPointWithoutBaseline ==
    pd_pc = "done" => \A dir \in Directions : PointDates(dir) \subseteq BaselineDates(dir)

\* C2 amended: in a direction that has at least one baseline, a day with
\* deltas but no baseline, or a baseline but no deltas, contributes no
\* point: every point lies on a date that has both.
C2_NoFabricationWhenAnchored ==
    pd_pc = "done" =>
        \A dir \in Directions :
            DailyOf(dir) # <<>> =>
                PointDates(dir) \subseteq (BaselineDates(dir) \cap DeltaDates(dir))

\* C2 witness: process_data returned, with no point, for a direction that has
\* a baseline day without deltas and a delta at minute 0 on a day without
\* baseline.
C2_Witness ==
    /\ pd_pc = "done"
    /\ \E dir \in Directions :
          /\ BaselineDates(dir) \ DeltaDates(dir) # {}
          /\ \E i \in 1..Len(HourlyOf(dir)) :
                /\ DateOf(HourlyOf(dir)[i].timestamp) \notin BaselineDates(dir)
                /\ MinuteOf(HourlyOf(dir)[i].timestamp) = 0
          /\ processed_data[dir] = <<>>

\* a direction with interval deltas and no baseline at all
Unanchored(dir) == HourlyOf(dir) # <<>> /\ DailyOf(dir) = <<>>

\* the positions of the deltas at minute 0, in sorted order
TopOfHour(H) == SelectSeq([i \in 1..Len(H) |-> i], LAMBDA i : MinuteOf(H[i].timestamp) = 0)

\* the points of an unanchored direction: one for every delta at minute 0,
\* in sorted order, with the start of its delta and Value(H, i) as state and sum
FallbackEmits(dir, Value(_, _)) ==
    LET H == SortByTimestamp(HourlyOf(dir))
        points == processed_data[dir]
    IN  /\ Len(points) = Len(TopOfHour(H))
        /\ \A j \in DOMAIN points :
               /\ points[j].start = FormatStart(H[TopOfHour(H)[j]].timestamp)
               /\ points[j].state = Value(H, TopOfHour(H)[j])
               /\ points[j].sum = points[j].state

\* the sum of all deltas with a timestamp up to and including that of delta i
SumUpToTimestamp(H, i) ==
    ValuesSum(SelectSeq(H, LAMBDA e : e.timestamp <= H[i].timestamp))

\* the sum of the deltas up to and including delta i, rounded
RoundedSumUpTo(H, i) == Round3(ValuesSum(SubSeq(H, 1, i)))

\* C28 as stated: in a direction without baseline every delta at minute 0
\* emits one point whose value is the sum of all deltas with a timestamp up
\* to and including its own, exactly.
C28_ValueIsExactInclusiveSum ==
    pd_pc = "done" =>
        \A dir \in Directions : Unanchored(dir) => FallbackEmits(dir, SumUpToTimestamp)

\* C28 amended: in a direction without baseline every delta at minute 0
\* emits one point, after the delta was added to a running total that starts
\* at 0: its state and sum are the sum of the deltas up to and including that
\* delta in sorted order, rounded to three decimals; the anchored walk over
\* the same deltas and a baseline of 0 emits its first point before it adds.
C28_FallbackAddsBeforeEmit ==
    pd_pc = "done" =>
        \A dir \in Directions :
            Unanchored(dir) =>
                /\ FallbackEmits(dir, RoundedSumUpTo)
                /\ LET H == SortByTimestamp(HourlyOf(dir))
                       midnight == DateOf(H[1].timestamp) * MinutesPerDay
                       anchored == process_energy_data(
                                       <<[timestamp |-> midnight, value |-> 0]>>, H)
                   IN  MinuteOf(H[1].timestamp) = 0 =>
                           /\ processed_data[dir][1].state = Round3(H[1].value)
                           /\ anchored[1].start = processed_data[dir][1].start
                           /\ anchored[1].state = 0

\* a direction without baseline whose second point comes after a delta off
\* the hour: the point holds all three deltas
C28_Witness ==
    /\ pd_pc = "done"
    /\ \E dir \in Directions :
           /\ Unanchored(dir)
           /\ LET H == SortByTimestamp(HourlyOf(dir))
              IN  /\ Len(H) = 3
                  /\ MinuteOf(H[1].timestamp) = 0
                  /\ MinuteOf(H[2].timestamp) # 0
                  /\ MinuteOf(H[3].timestamp) = 0
                  /\ Len(processed_data[dir]) = 2
                  /\ processed_data[dir][2].state
                         = Round3(H[1].value + H[2].value + H[3].value)
                  /\ processed_data[dir][2].state # processed_data[dir][1].state

\* the part of a series that lies on a date
OnDate(series, date) == SelectSeq(series, LAMBDA e : DateOf(e.timestamp) = date)

\* the points of a direction that lie on a date
PointsOn(dir, date) == SelectSeq(processed_data[dir], LAMBDA point : point.start[1] = date)

\* C21: the walk sets the running total anew at every baseline day: the
\* points of a day are those that the walk makes of that day's baselines and
\* that day's deltas alone, whatever the other days hold.
C21_DayDependsOnItsOwnData ==
    pd_pc = "done" =>
        \A dir \in Directions :
            Anchored(dir) =>
                \A date \in Days :
                    PointsOn(dir, date)
                        = process_energy_data(OnDate(DailyOf(dir), date),
                                              OnDate(HourlyOf(dir), date))

\* two baseline days emitted a point each, and the second day started at its
\* own baseline, which is not the total the first day ended with
C21_Witness ==
    /\ pd_pc = "done"
    /\ \E dir \in Directions :
          /\ Len(DailyOf(dir)) = 2
          /\ DateOf(DailyOf(dir)[1].timestamp) < DateOf(DailyOf(dir)[2].timestamp)
          /\ \A date \in Days : PointsOn(dir, date) # <<>>
          /\ DailyOf(dir)[1].value
                 + ValuesSum(OnDate(HourlyOf(dir), DateOf(DailyOf(dir)[1].timestamp)))
                 # DailyOf(dir)[2].value
          /\ PointsOn(dir, DateOf(DailyOf(dir)[2].timestamp))[1].state
                 = Round3(DailyOf(dir)[2].value)

---------------------------------------------------------------------------
(* Claims about the classifier                                             *)

\* C5: detect_format never raises; it returns a tag and metadata, and when
\* reading the sample throws it returns (Unknown, empty metadata).
C5_ClassifierNeverRaises ==
    det_pc = "done" =>
        /\ ~det_result.raised
        /\ det_result.format \in DataFormat
        /\ df_sample.read # "ok" =>
               det_result.format = UNKNOWN /\ det_result.metadata = EmptyMetadata

\* C5 witness: detect_format returned Unknown for a file that could not be read.
C5_Witness ==
    /\ det_pc = "done"
    /\ df_sample.read = "FileNotFoundError"
    /\ det_result = Returned(UNKNOWN, EmptyMetadata)

SampleColumns == {Strip(col) : col \in df_sample.columns}
HasMarker ==
    \/ Contains(Join(df_sample.first_column), <<"MAXIMUM", "ERTEK">>)
    \/ Contains(Join(df_sample.first_column), <<"OSSZEG">>)
LegacyMatches ==
    {"POD Name", "Variable name", "Time", "Value [kWh]"} \subseteq SampleColumns
IntervalMatches ==
    {"Datum/Ido", "+A", "-A"} \subseteq SampleColumns /\ HasMarker
CumulativeMatches ==
    /\ "Datum" \in SampleColumns
    /\ \E col \in SampleColumns : IsDPColumn(col)
    /\ HasMarker

\* C6: the tag is that of the first signature, in the order legacy, ap_am,
\* 180_280, that fully matches the sample (required columns, the DP column
\* for 180_280, a marker in the first column where markers are defined), and
\* Unknown when none does.
C6_FirstMatchWins ==
    (det_pc = "done" /\ df_sample.read = "ok") =>
        det_result.format =
            IF LegacyMatches THEN LEGACY
            ELSE IF IntervalMatches THEN AP_AM
            ELSE IF CumulativeMatches THEN CUMULATIVE_180_280
            ELSE UNKNOWN

\* C6 witness: a sample that satisfies all three signatures was tagged legacy.
C6_Witness ==
    /\ det_pc = "done"
    /\ LegacyMatches /\ IntervalMatches /\ CumulativeMatches
    /\ det_result.format = LEGACY

\* str.upper() of a cell's words
UpperCased(words) == [i \in DOMAIN words |-> IF words[i] = "osszeg" THEN "OSSZEG" ELSE words[i]]

\* the first column holds a marker in some letter case
HasMarkerInAnyCase ==
    LET text == Join([i \in DOMAIN df_sample.first_column |->
                         UpperCased(df_sample.first_column[i])])
    IN  Contains(text, MAXIMUM_ERTEK) \/ Contains(text, OSSZEG)

\* C25: markers match in any letter case, columns only in their own: a
\* sample with the interval columns (and not the legacy ones) whose first
\* column holds a marker in whatever case is tagged ap_am, one with Datum, a
\* DP column and such a marker (and neither the legacy nor the interval
\* columns) is tagged 180_280, while a sample whose only date column is
\* 'datum' is never tagged 180_280.  The code tests `pattern in text` on the
\* text as it is: a sample with the marker in lower case only matches no
\* signature with markers.
C25_MarkersMatchInAnyCase ==
    (det_pc = "done" /\ df_sample.read = "ok" /\ ~LegacyMatches) =>
        /\ ({"Datum/Ido", "+A", "-A"} \subseteq SampleColumns /\ HasMarkerInAnyCase)
               => det_result.format = AP_AM
        /\ (/\ ~({"Datum/Ido", "+A", "-A"} \subseteq SampleColumns)
            /\ "Datum" \in SampleColumns
            /\ \E col \in SampleColumns : IsDPColumn(col)
            /\ HasMarkerInAnyCase)
               => det_result.format = CUMULATIVE_180_280
        /\ "Datum" \notin SampleColumns => det_result.format # CUMULATIVE_180_280


---------------------------------------------------------------------------
(* Claims about the unified parser                                         *)

ParseFileDone == up_pc = "done" /\ up_request.op = "parse_file"
ParseMultipleDone == up_pc = "done" /\ up_request.op = "parse_multiple_files"

\* parse_file(path) returns a result
Succeeds(path) == ~parse_file(path, None).raised

\* the paths whose parse fails, in input order
FailingPaths(paths) == SelectSeq(paths, LAMBDA path : ~Succeeds(path))

\* the records the files that parse contribute to a series, in input order
RECURSIVE Contributed(_, _)
Contributed(paths, series) ==
    IF paths = <<>> THEN <<>>
    ELSE (IF Succeeds(Head(paths))
          THEN parse_file(Head(paths), None).result[series] ELSE <<>>)
         \o Contributed(Tail(paths), series)

Count(s, r) == Cardinality({i \in DOMAIN s : s[i] = r})

\* s and t hold the same records, each as often
SameRecords(s, t) ==
    /\ Len(s) = Len(t)
    /\ \A i \in DOMAIN t : Count(s, t[i]) = Count(t, t[i])

\* C3: parse_multiple_files attempts every path in input order, records one
\* error entry per failing path, in input order and naming the path, and its
\* combined hourly and daily series hold exactly the records of the files that
\* parsed, whatever files failed beside them.
C3_FailureIsolation ==
    ParseMultipleDone =>
        LET paths == up_request.file_paths
            combined == pmf_outcome.combined
            errors == combined.metadata.processing_errors
        IN  /\ ~pmf_outcome.raised
            /\ combined.calls = paths
            /\ Len(errors) = Len(FailingPaths(paths))
            /\ \A i \in DOMAIN errors : errors[i].file_path = FailingPaths(paths)[i]
            /\ SameRecords(combined.hourly_data, Contributed(paths, "hourly_data"))
            /\ SameRecords(combined.daily_data, Contributed(paths, "daily_data"))

\* three paths, the second of which fails between two that contribute records
C3_Witness ==
    /\ ParseMultipleDone
    /\ Len(up_request.file_paths) = 3
    /\ Succeeds(up_request.file_paths[1])
    /\ ~Succeeds(up_request.file_paths[2])
    /\ Succeeds(up_request.file_paths[3])
    /\ up_request.file_paths[1] # up_request.file_paths[3]
    /\ Len(pmf_outcome.combined.metadata.processing_errors) = 1
    /\ Len(pmf_outcome.combined.hourly_data) > 24
    /\ pmf_outcome.combined.daily_data # <<>>

\* metadata.get('total_records', 0) of the results, added up
RECURSIVE RecordsOf(_)
RecordsOf(results) ==
    IF results = <<>> THEN 0
    ELSE (IF "total_records" \in Head(results).metadata.keys
          THEN Head(results).metadata.total_records ELSE 0)
         + RecordsOf(Tail(results))

\* what parse_file returns for the paths that parse, in input order
RECURSIVE ResultsOf(_)
ResultsOf(paths) ==
    IF paths = <<>> THEN <<>>
    ELSE (IF Succeeds(Head(paths)) THEN <<parse_file(Head(paths), None).result>> ELSE <<>>)
         \o ResultsOf(Tail(paths))

\* C26: a call of parse_multiple_files over n paths that returns accounts for
\* every path once: the processed files are the paths that parse, in input
\* order, the error entries are the others, so that together they are n, the
\* file_count; there is one per-file result for every processed file, and
\* total_records is the sum of the record counts of those results alone.
C26_EveryPathAccountedOnce ==
    (ParseMultipleDone /\ ~pmf_outcome.raised) =>
        LET paths == up_request.file_paths
            combined == pmf_outcome.combined
        IN  /\ Len(combined.files) + Len(combined.metadata.processing_errors) = Len(paths)
            /\ combined.metadata.file_count = Len(paths)
            /\ combined.files = SelectSeq(paths, Succeeds)
            /\ Len(combined.parsed_files) = Len(combined.files)
            /\ combined.parsed_files = ResultsOf(paths)
            /\ combined.total_records = RecordsOf(ResultsOf(paths))

\* three paths, one of which fails: two processed files with records, one
\* error entry
C26_Witness ==
    /\ ParseMultipleDone
    /\ ~pmf_outcome.raised
    /\ Len(up_request.file_paths) = 3
    /\ Len(pmf_outcome.combined.files) = 2
    /\ Len(pmf_outcome.combined.metadata.processing_errors) = 1
    /\ pmf_outcome.combined.metadata.file_count = 3
    /\ pmf_outcome.combined.total_records > 0
    /\ \A i \in DOMAIN pmf_outcome.combined.parsed_files :
           pmf_outcome.combined.parsed_files[i].metadata.total_records > 0

\* C4: when no path parses (the empty list included), parse_multiple_files
\* fails with a top-level error instead of returning empty combined series.
C4_NoSuccessIsAnError ==
    (ParseMultipleDone /\ \A i \in DOMAIN up_request.file_paths :
                              ~Succeeds(up_request.file_paths[i]))
        => pmf_outcome.raised

\* the override is honoured: it is neither None nor the empty string
Overridden == up_request.format_override # None /\ up_request.format_override[1] # ""

\* the tag the call dispatches on, when it gets that far
TagOf(file_path, format_override) ==
    IF format_override # None /\ format_override[1] # ""
    THEN format_override[1]
    ELSE detect_file_format(FileSystem[file_path]).format

\* the parser of a tag raises on the file
ParserRaises(tag, file_path) ==
    \/ tag = LEGACY /\ CSVParser_parse(FileSystem[file_path]).raised
    \/ tag = AP_AM /\ APAMParser_parse(file_path, FileSystem[file_path]).raised
    \/ tag = CUMULATIVE_180_280
       /\ CumulativeParser_parse(file_path, FileSystem[file_path]).raised

\* the request is one parse_file cannot answer
MustFail ==
    \/ ~FileSystem[up_request.file_path].exists
    \/ FileSystem[up_request.file_path].header = <<>>
    \/ Overridden /\ up_request.format_override[1] \notin DataFormat
    \/ TagOf(up_request.file_path, up_request.format_override) = UNKNOWN
    \/ ParserRaises(TagOf(up_request.file_path, up_request.format_override),
                    up_request.file_path)

\* C7: a parse_file call that cannot be answered (missing or unreadable file,
\* file classified unknown, invalid override, exception inside a parser) fails,
\* and every failure is a FileProcessingError that returns no result.
C7_FailuresAreFileProcessingErrors ==
    ParseFileDone =>
        /\ MustFail => pf_outcome.raised
        /\ pf_outcome.raised =>
              pf_outcome.error = "FileProcessingError" /\ pf_outcome.result = NoParseResult

\* a file classified legacy whose parser raised on a short row
C7_Witness ==
    /\ ParseFileDone
    /\ pf_outcome.raised
    /\ pf_outcome.error = "FileProcessingError"
    /\ pf_outcome.calls = <<"detect_file_format", "CSVParser">>

\* the override is a non-empty string that is no value of DataFormat
InvalidOverride == Overridden /\ up_request.format_override[1] \notin DataFormat

\* C8: an override that is none of the four tag values fails with a
\* ConfigurationError, without the classifier and without a parser.  The code
\* refuses such an override before the classifier and before any parser, but
\* with a FileProcessingError: ConfigurationError is raised nowhere.
C8_InvalidOverrideIsConfigurationError ==
    (ParseFileDone /\ InvalidOverride) =>
        /\ pf_outcome.raised
        /\ pf_outcome.error = "ConfigurationError"
        /\ pf_outcome.calls = <<>>

ParserNames == {parser_classes[format_type] : format_type \in DOMAIN parser_classes}

\* C27: the 'format' of a result that parse_file returns with auto-detection
\* is a value of DataFormat, and parse_file of the same file with that string
\* as format_override returns the same tag and the same series.  The code's
\* cumulative parser tags its result 'cumulative_180_280', which is no value
\* of DataFormat: given back as an override it is refused.
C27_FormatTagRoundTrip ==
    (ParseFileDone /\ up_request.format_override = None /\ ~pf_outcome.raised) =>
        LET tag == pf_outcome.result.format
            again == parse_file(up_request.file_path, Some(tag))
        IN  /\ tag \in DataFormat
            /\ ~again.raised
            /\ SelectSeq(again.calls, LAMBDA name : name \in ParserNames)
                   = SelectSeq(pf_outcome.calls, LAMBDA name : name \in ParserNames)
            /\ again.result.format = tag
            /\ again.result.hourly_data = pf_outcome.result.hourly_data
            /\ again.result.daily_data = pf_outcome.result.daily_data

\* C9: with a recognized override the classifier is not invoked and the only
\* parser that runs is the one registered for the override's tag, whatever the
\* file holds; without an override the classifier is invoked first, before any
\* parser.
C9_OverrideSkipsClassifier ==
    ParseFileDone =>
        LET calls == pf_outcome.calls
            tag == up_request.format_override[1]
        IN  /\ (Overridden /\ tag \in DataFormat) =>
                  calls = IF tag \in DOMAIN parser_classes
                          THEN <<parser_classes[tag]>> ELSE <<>>
            /\ ~Overridden =>
                  /\ calls # <<>>
                  /\ calls[1] = "detect_file_format"
                  /\ \A i \in 2..Len(calls) : calls[i] \in ParserNames

\* an override naming another tag than the one the file is classified as
C9_Witness ==
    /\ ParseFileDone
    /\ Overridden
    /\ up_request.format_override[1] = LEGACY
    /\ detect_file_format(FileSystem[up_request.file_path]).format = AP_AM
    /\ pf_outcome.calls = <<"CSVParser">>

\* C10: the result of parse_file for a legacy file carries the readings the
\* legacy parser read: as many hourly records as valid interval rows, as many
\* daily records as valid baseline rows, and their number as the record count.
C10_LegacyResultCarriesReadings ==
    (ParseFileDone /\ ~pf_outcome.raised /\ pf_outcome.result.format = "legacy") =>
        LET data == CSVParser_parse(FileSystem[up_request.file_path]).value
            intervals == Len(data.import_hourly) + Len(data.export_hourly)
            baselines == Len(data.import_daily) + Len(data.export_daily)
        IN  /\ Len(pf_outcome.result.hourly_data) = intervals
            /\ Len(pf_outcome.result.daily_data) = baselines
            /\ pf_outcome.result.metadata.total_records = intervals + baselines

---------------------------------------------------------------------------
(* Claims about the parsers on their own                                   *)

ParserDone == pr_pc = "done"

\* how the parser's call ended
ParserOutcome == IF pr_parser = "CSVParser" THEN csv_outcome ELSE new_outcome

\* the file is there and its header has the columns of the parser's format
HeaderValid ==
    /\ pr_file.exists
    /\ pr_parser = "CSVParser" =>
           {CSV_COLUMNS.POD_NAME, CSV_COLUMNS.VARIABLE_NAME, CSV_COLUMNS.TIME,
            CSV_COLUMNS.VALUE} \subseteq Range(pr_file.header)
    /\ pr_parser = "APAMParser" => Range(AP_AM_COLUMNS) \subseteq Range(pr_file.header)
    /\ pr_parser = "CumulativeParser" =>
           /\ pr_file.header # <<>>
           /\ Len(SelectSeq(pr_file.header, IsDPColumn)) >= 2

\* the cell that the parser at work reads from a row under a column name
Cell(row, column) ==
    IF pr_parser = "CSVParser"
    THEN CellAt(pr_file.header, row, column)
    ELSE FrameCellAt(pr_file.header, row, column)

\* a row without anomaly: its timestamp and its values are well formed and,
\* in a legacy file, its category is one of the four
ValidRow(row) ==
    IF pr_parser = "CSVParser"
    THEN /\ Cell(row, CSV_COLUMNS.TIME).k = "time"
         /\ Cell(row, CSV_COLUMNS.TIME).fmt = DATETIME_FORMAT
         /\ Cell(row, CSV_COLUMNS.VALUE).k = "num"
         /\ Cell(row, CSV_COLUMNS.VARIABLE_NAME) \in
                {VARIABLE_FILTERS.IMPORT_HOURLY, VARIABLE_FILTERS.EXPORT_HOURLY,
                 VARIABLE_FILTERS.IMPORT_DAILY, VARIABLE_FILTERS.EXPORT_DAILY}
    ELSE IF pr_parser = "APAMParser"
    THEN /\ Cell(row, "Datum/Ido").k = "time"
         /\ Cell(row, "Datum/Ido").fmt = AP_AM_FORMAT
         /\ Cell(row, "+A").k = "num"
         /\ Cell(row, "-A").k = "num"
    ELSE /\ FirstCell(row).k = "time"
         /\ FirstCell(row).fmt = CUMULATIVE_FORMAT
         /\ row[2].k = "num"
         /\ row[3].k = "num"

\* the reading of a valid row is in the series of the result it belongs to
Appears(row, result) ==
    IF pr_parser = "CSVParser"
    THEN LET variable == Cell(row, CSV_COLUMNS.VARIABLE_NAME)
             bucket == IF variable = VARIABLE_FILTERS.IMPORT_HOURLY THEN result.import_hourly
                       ELSE IF variable = VARIABLE_FILTERS.EXPORT_HOURLY
                       THEN result.export_hourly
                       ELSE IF variable = VARIABLE_FILTERS.IMPORT_DAILY
                       THEN result.import_daily
                       ELSE result.export_daily
         IN  \E i \in DOMAIN bucket :
                 /\ bucket[i].timestamp = Cell(row, CSV_COLUMNS.TIME).n
                 /\ bucket[i].value = Cell(row, CSV_COLUMNS.VALUE).n
    ELSE IF pr_parser = "APAMParser"
    THEN \E i \in DOMAIN result.raw_data :
             /\ result.raw_data[i].datetime = Cell(row, "Datum/Ido").n
             /\ result.raw_data[i].import_kwh = Cell(row, "+A").n
             /\ result.raw_data[i].export_kwh = Cell(row, "-A").n
    ELSE \E i \in DOMAIN result.cumulative_data :
             /\ result.cumulative_data[i].datetime = FirstCell(row).n
             /\ result.cumulative_data[i].cumulative_import_kwh = row[2].n
             /\ result.cumulative_data[i].cumulative_export_kwh = row[3].n

\* a data row (a blank line is none) with an anomaly
HasAnomalousRow ==
    \E i \in DOMAIN pr_file.rows : pr_file.rows[i] # <<>> /\ ~ValidRow(pr_file.rows[i])

\* C11: a parser given a file with a valid header returns successfully
\* whatever is wrong with single rows, and the reading of every valid row is
\* in its result.  The legacy parser does not: a row that ends before its
\* time or its value makes strptime or float raise a TypeError, which the row
\* loop does not catch, and the file fails.
C11_RowAnomaliesNeverFatal ==
    (ParserDone /\ HeaderValid /\ HasAnomalousRow) =>
        /\ ~ParserOutcome.raised
        /\ \A i \in DOMAIN pr_file.rows :
               ValidRow(pr_file.rows[i]) => Appears(pr_file.rows[i], ParserOutcome.value)

\* the keys of a series rise strictly: sorted, and no key twice
StrictlyIncreasing(s, key) ==
    \A i, j \in DOMAIN s : i < j => s[i][key] < s[j][key]

\* C12: every series a parser returns has strictly increasing timestamps.
\* The parsers sort, but none of them drops a second record of a timestamp:
\* two '+A' rows of one time are both in import_hourly, two interval rows of
\* one time both in raw_data, two readings of one day both in cumulative_data.
C12_SeriesStrictlyIncreasing ==
    (ParserDone /\ ~ParserOutcome.raised) =>
        IF pr_parser = "CSVParser"
        THEN /\ StrictlyIncreasing(csv_outcome.value.import_hourly, "timestamp")
             /\ StrictlyIncreasing(csv_outcome.value.export_hourly, "timestamp")
             /\ StrictlyIncreasing(csv_outcome.value.import_daily, "timestamp")
             /\ StrictlyIncreasing(csv_outcome.value.export_daily, "timestamp")
        ELSE IF pr_parser = "APAMParser"
        THEN /\ StrictlyIncreasing(new_outcome.value.raw_data, "datetime")
             /\ StrictlyIncreasing(new_outcome.value.hourly_data, "datetime")
             /\ StrictlyIncreasing(new_outcome.value.daily_data, "date")
        ELSE StrictlyIncreasing(new_outcome.value.cumulative_data, "datetime")

\* the header of the legacy file lacks one of the four required columns
LacksRequiredColumn ==
    /\ pr_parser = "CSVParser"
    /\ pr_file.exists
    /\ pr_file.header # <<>>
    /\ ~({CSV_COLUMNS.POD_NAME, CSV_COLUMNS.VARIABLE_NAME, CSV_COLUMNS.TIME,
          CSV_COLUMNS.VALUE} \subseteq Range(pr_file.header))

\* C14: CSVParser.parse raises CSVFormatError for a header that lacks a
\* required column.  _validate_headers raises it, but inside the try block of
\* parse, whose handler raises FileProcessingError in its place.
C14_MissingColumnIsCSVFormatError ==
    (ParserDone /\ LacksRequiredColumn) =>
        csv_outcome.raised /\ csv_outcome.error = "CSVFormatError"

\* C15: a parser fails with FileProcessingError when its file cannot be read
\* or lacks the columns of its format.  The legacy and the interval parser do;
\* the cumulative parser only counts the columns, and with fewer than two DP
\* columns it converts no row and returns a result without readings.
C15_MissingColumnsFail ==
    (ParserDone /\ ~HeaderValid) =>
        ParserOutcome.raised /\ ParserOutcome.error = "FileProcessingError"

\* no two records of a merged series have the same timestamp
NoTimestampTwice(s) ==
    \A i, j \in DOMAIN s : i < j => get_sort_key(s[i]) # get_sort_key(s[j])

\* C13: the merged series of parse_multiple_files hold no timestamp twice.
\* The code extends and sorts the combined lists and never drops a record:
\* two files that cover the same hour, or one file listed twice, leave both
\* records of that hour in the result.
C13_MergedDeduplicated ==
    ParseMultipleDone =>
        /\ NoTimestampTwice(pmf_outcome.combined.hourly_data)
        /\ NoTimestampTwice(pmf_outcome.combined.daily_data)

\* the records of a series with a given timestamp, in the order of the series
WithKey(s, k) == SelectSeq(s, LAMBDA r : get_sort_key(r) = k)

\* merged is the stable sort of concatenated: non-decreasing, and the records
\* of every timestamp are those of the concatenation, in their order there
StablySorted(merged, concatenated) ==
    /\ Len(merged) = Len(concatenated)
    /\ \A i, j \in DOMAIN merged :
           i < j => get_sort_key(merged[i]) <= get_sort_key(merged[j])
    /\ \A i \in DOMAIN concatenated :
           WithKey(merged, get_sort_key(concatenated[i]))
               = WithKey(concatenated, get_sort_key(concatenated[i]))

\* C20: each merged series of parse_multiple_files is the concatenation of the
\* series of the files that parsed, in input order, sorted stably by
\* timestamp: records of one timestamp keep the order of their files and
\* their order within a file.
C20_MergeIsStableSortOfConcatenation ==
    ParseMultipleDone =>
        /\ StablySorted(pmf_outcome.combined.hourly_data,
                        Contributed(up_request.file_paths, "hourly_data"))
        /\ StablySorted(pmf_outcome.combined.daily_data,
                        Contributed(up_request.file_paths, "daily_data"))

\* two files gave different records of one hour, and the sort moved records
C20_Witness ==
    /\ ParseMultipleDone
    /\ \E i, j \in DOMAIN pmf_outcome.combined.hourly_data :
           /\ i < j
           /\ pmf_outcome.combined.hourly_data[i].datetime
                  = pmf_outcome.combined.hourly_data[j].datetime
           /\ pmf_outcome.combined.hourly_data[i] # pmf_outcome.combined.hourly_data[j]
    /\ pmf_outcome.combined.hourly_data # Contributed(up_request.file_paths, "hourly_data")

\* the legacy parser returned its buckets
LegacyDone == ParserDone /\ pr_parser = "CSVParser" /\ ~csv_outcome.raised

\* the four buckets and the token of each
BucketTokens ==
    [import_hourly |-> "'+A'", export_hourly |-> "'-A'",
     import_daily |-> "'DP_1-1:1.8.0*0'", export_daily |-> "'DP_1-1:2.8.0*0'"]

\* a row with a valid timestamp and a valid value
WellFormed(row) ==
    /\ Cell(row, CSV_COLUMNS.TIME).k = "time"
    /\ Cell(row, CSV_COLUMNS.TIME).fmt = DATETIME_FORMAT
    /\ Cell(row, CSV_COLUMNS.VALUE).k = "num"

\* the well-formed rows whose category is exactly the token
RowsOf(token) ==
    SelectSeq(pr_file.rows,
              LAMBDA row : WellFormed(row)
                           /\ Cell(row, CSV_COLUMNS.VARIABLE_NAME).words = <<token>>)

\* the reading of a row
ReadingOf(row) ==
    [timestamp |-> Cell(row, CSV_COLUMNS.TIME).n, value |-> Cell(row, CSV_COLUMNS.VALUE).n]

\* the bucket holds the readings of the rows, each as often
HoldsExactly(bucket, rows) ==
    /\ Len(bucket) = Len(rows)
    /\ \A i \in DOMAIN rows :
           Cardinality({j \in DOMAIN bucket : bucket[j] = ReadingOf(rows[i])})
               = Cardinality({j \in DOMAIN rows : ReadingOf(rows[j]) = ReadingOf(rows[i])})

\* C22: of the rows of a legacy file the parser returns, each bucket holds
\* exactly the well-formed rows whose category is the bucket's token, letter
\* for letter; so such a row is in one bucket only, a row of any other
\* category is in none, and the buckets together hold as many readings as
\* there are well-formed rows of the four tokens.
C22_BucketsByExactToken ==
    LegacyDone =>
        \A bucket \in DOMAIN BucketTokens :
            HoldsExactly(csv_outcome.value[bucket], RowsOf(BucketTokens[bucket]))

\* a file with readings for two buckets, among them a row of '+A' without
\* its quotes, which went to no bucket
C22_Witness ==
    /\ LegacyDone
    /\ csv_outcome.value.import_hourly # <<>>
    /\ csv_outcome.value.export_hourly # <<>>
    /\ \E i \in DOMAIN pr_file.rows :
           /\ WellFormed(pr_file.rows[i])
           /\ Cell(pr_file.rows[i], CSV_COLUMNS.VARIABLE_NAME).words = <<"+A">>
    /\ Len(csv_outcome.value.import_hourly) + Len(csv_outcome.value.export_hourly)
           + Len(csv_outcome.value.import_daily) + Len(csv_outcome.value.export_daily) = 2

\* the interval parser returned a result
IntervalDone == ParserDone /\ pr_parser = "APAMParser" /\ ~new_outcome.raised

\* the readings of the file's rows without anomaly, in file order
IntervalReadings ==
    LET rows == SelectSeq(pr_file.rows, ValidRow)
    IN  [i \in DOMAIN rows |->
            [datetime |-> Cell(rows[i], "Datum/Ido").n,
             import_kwh |-> Cell(rows[i], "+A").n,
             export_kwh |-> Cell(rows[i], "-A").n,
             net_kwh |-> Cell(rows[i], "+A").n - Cell(rows[i], "-A").n]]

\* the readings within the hour that starts at h, and those on a date
ReadingsInHour(readings, h) ==
    SelectSeq(readings, LAMBDA r : h <= r.datetime /\ r.datetime < h + 60)
ReadingsOnDate(readings, d) ==
    SelectSeq(readings, LAMBDA r : d * MinutesPerDay <= r.datetime
                                   /\ r.datetime < (d + 1) * MinutesPerDay)

\* the records of an hourly series that start on a date
HoursOfDate(hourly, d) ==
    SelectSeq(hourly, LAMBDA h : d * MinutesPerDay <= h.datetime
                                 /\ h.datetime < (d + 1) * MinutesPerDay)

\* the sums, not rounded, of the readings within the hours of an hourly
\* series that start on a date, added up
UnroundedHoursOfDate(readings, hours, key) ==
    SumOf([k \in DOMAIN hours |->
              [value |-> SumOf(ReadingsInHour(readings, hours[k].datetime), key)]],
          "value")

\* every reading is a whole number of thousandths, so that rounding changes
\* nothing
WholeThousandths(readings) ==
    \A i \in DOMAIN readings :
        readings[i].import_kwh % Milli = 0 /\ readings[i].export_kwh % Milli = 0

EnergyKeys == {"import_kwh", "export_kwh", "net_kwh"}

\* an hourly record holds the rounded sums of the readings of its hour
HourlyRecordSums(readings, record) ==
    \A key \in EnergyKeys : record[key] = Round3(SumOf(readings, key))

\* a daily record holds the rounded sums of the readings of its date; the
\* unrounded sums of the date's hours add up to the unrounded sum of the
\* date, and the hourly values add up to the daily value when every reading
\* of the date is a whole number of thousandths
DailyRecordSums(all, readings, hours, record) ==
    \A key \in EnergyKeys :
        /\ record[key] = Round3(SumOf(readings, key))
        /\ UnroundedHoursOfDate(all, hours, key) = SumOf(readings, key)
        /\ WholeThousandths(readings) => record[key] = SumOf(hours, key)

\* the hourly and the daily series are the sums of the readings
AggregatesOf(readings, hourly, daily) ==
    /\ StrictlyIncreasing(hourly, "datetime")
    /\ {hourly[i].datetime : i \in DOMAIN hourly}
           = {60 * (readings[i].datetime \div 60) : i \in DOMAIN readings}
    /\ \A i \in DOMAIN hourly :
           HourlyRecordSums(ReadingsInHour(readings, hourly[i].datetime), hourly[i])
    /\ StrictlyIncreasing(daily, "date")
    /\ {daily[i].date : i \in DOMAIN daily}
           = {readings[i].datetime \div MinutesPerDay : i \in DOMAIN readings}
    /\ \A i \in DOMAIN daily :
           DailyRecordSums(readings, ReadingsOnDate(readings, daily[i].date),
                           HoursOfDate(hourly, daily[i].date), daily[i])
    /\ \A r \in DOMAIN readings :
           /\ Cardinality({i \in DOMAIN hourly :
                              /\ hourly[i].datetime <= readings[r].datetime
                              /\ readings[r].datetime < hourly[i].datetime + 60}) = 1
           /\ Cardinality({i \in DOMAIN daily :
                              daily[i].date = readings[r].datetime \div MinutesPerDay})
                  = 1

\* C23: the interval parser's hourly series has one record for every hour
\* that holds a valid reading, with the sums of the import, export and net
\* readings of that hour, rounded to three decimals, and its daily series one
\* record for every such date with the rounded sums of the date's readings;
\* every reading lies in exactly one hourly and one daily record, a summary
\* row or a row with an anomaly adds to no sum; before rounding the sums of
\* the hours of a date add up to the sum of the date, and where rounding
\* changes nothing the hourly values of a date add up to its daily value.
C23_AggregationConservesEnergy ==
    IntervalDone =>
        AggregatesOf(IntervalReadings, new_outcome.value.hourly_data,
                     new_outcome.value.daily_data)

\* two readings of one hour, a reading of the next hour of that day and a
\* summary row: two hourly records, the first with the sum of the two, and
\* one daily record with the sum of the two hourly values and nothing of the
\* summary row
C23_Witness ==
    /\ IntervalDone
    /\ Len(IntervalReadings) = 3
    /\ IntervalReadings[1].datetime # IntervalReadings[2].datetime
    /\ \E i \in DOMAIN pr_file.rows : FirstCell(pr_file.rows[i]) = TextCell(OSSZEG)
    /\ WholeThousandths(IntervalReadings)
    /\ LET hourly == new_outcome.value.hourly_data
           daily == new_outcome.value.daily_data
       IN  /\ Len(hourly) = 2
           /\ Len(daily) = 1
           /\ hourly[2].datetime = hourly[1].datetime + 60
           /\ hourly[1].import_kwh
                  = IntervalReadings[1].import_kwh + IntervalReadings[2].import_kwh
           /\ hourly[1].import_kwh > IntervalReadings[2].import_kwh
           /\ hourly[2].net_kwh < 0
           /\ \A key \in EnergyKeys :
                  /\ daily[1][key] = hourly[1][key] + hourly[2][key]
                  /\ daily[1][key] # hourly[1][key]

\* the cumulative parser returned a result
CumulativeDone ==
    ParserDone /\ pr_parser = "CumulativeParser" /\ ~new_outcome.raised

\* the day rows of the file without anomaly
ValidDayRows == SelectSeq(pr_file.rows, ValidRow)

\* C16 as stated: the cumulative parser returns baselines only, no series of
\* consumption derived from them.
C16_NoConsumptionDeltas ==
    CumulativeDone =>
        /\ new_outcome.value.daily_data = <<>>
        /\ new_outcome.value.hourly_data = <<>>

\* C16, amended: the cumulative parser's result holds one baseline record for
\* every valid day row, with the row's absolute import and export values, and
\* next to them the consumption the parser derives itself: one daily record
\* for every baseline after the first, the difference to the baseline before
\* it with a negative difference taken as zero, and HoursPerDay hourly records
\* for each of those days.
C16_BaselinesAndDerivedConsumption ==
    (CumulativeDone /\ HeaderValid) =>
        LET baselines == new_outcome.value.cumulative_data
            daily == new_outcome.value.daily_data
            hourly == new_outcome.value.hourly_data
            Difference(j, key) == baselines[j + 1][key] - baselines[j][key]
        IN  /\ Len(baselines) = Len(ValidDayRows)
            /\ \A i \in DOMAIN ValidDayRows : Appears(ValidDayRows[i], new_outcome.value)
            /\ Len(daily) = (IF baselines = <<>> THEN 0 ELSE Len(baselines) - 1)
            /\ \A j \in DOMAIN daily :
                   /\ daily[j].date = baselines[j + 1].date
                   /\ daily[j].import_kwh
                          = Round3(Max({0, Difference(j, "cumulative_import_kwh")}))
                   /\ daily[j].export_kwh
                          = Round3(Max({0, Difference(j, "cumulative_export_kwh")}))
            /\ Len(hourly) = HoursPerDay * Len(daily)

\* three readings gave two days of consumption, one of them above zero
C16_Witness ==
    /\ CumulativeDone
    /\ HeaderValid
    /\ Len(new_outcome.value.cumulative_data) = 3
    /\ Len(new_outcome.value.daily_data) = 2
    /\ \E j \in DOMAIN new_outcome.value.daily_data :
           new_outcome.value.daily_data[j].import_kwh > 0
    /\ Len(new_outcome.value.hourly_data) = 2 * HoursPerDay

\* the difference of the baselines j and j + 1 of a cumulative result
BaselineDelta(result, j, key) ==
    result.cumulative_data[j + 1][key] - result.cumulative_data[j][key]

\* the hour walk of the processor over one day that starts at baseline j of a
\* cumulative result and meets the difference to the next baseline as the
\* delta of its first hour
WalkOver(result, j, key) ==
    LET midnight == DateOf(result.cumulative_data[j].datetime) * MinutesPerDay
    IN  process_energy_data(
            <<[timestamp |-> midnight, value |-> result.cumulative_data[j][key]]>>,
            <<[timestamp |-> midnight, value |-> BaselineDelta(result, j, key)],
              [timestamp |-> midnight + 60, value |-> 0]>>)

\* C24 as stated: every daily import and export total the cumulative parser
\* computes from two consecutive baselines equals max(0, current - previous)
\* and is never below zero, and the processor's hour walk given the same
\* baseline and the same difference as a delta adds it unclamped.
C24_DailyIsExactClampedDifference ==
    CumulativeDone =>
        LET result == new_outcome.value
        IN  \A j \in DOMAIN result.daily_data :
                \A view \in {<<"cumulative_import_kwh", "import_kwh">>,
                             <<"cumulative_export_kwh", "export_kwh">>} :
                    LET delta == BaselineDelta(result, j, view[1])
                        walk == WalkOver(result, j, view[1])
                    IN  /\ result.daily_data[j][view[2]] = Max({0, delta})
                        /\ result.daily_data[j][view[2]] >= 0
                        /\ Len(walk) = 2
                        /\ delta <= -Milli => walk[2].state < walk[1].state

\* C24 amended: every daily import and export total the cumulative parser
\* computes from two consecutive baselines is max(0, current - previous)
\* rounded to three decimals, and never below zero; the processor's hour walk
\* given the same baseline and the same difference as a delta adds it as it
\* is, so that a negative difference takes the running total below the
\* baseline.
C24_ClampedDailyUnclampedWalk ==
    CumulativeDone =>
        LET result == new_outcome.value
        IN  \A j \in DOMAIN result.daily_data :
                \A view \in {<<"cumulative_import_kwh", "import_kwh">>,
                             <<"cumulative_export_kwh", "export_kwh">>} :
                    LET delta == BaselineDelta(result, j, view[1])
                        walk == WalkOver(result, j, view[1])
                    IN  /\ result.daily_data[j][view[2]] = Round3(Max({0, delta}))
                        /\ result.daily_data[j][view[2]] >= 0
                        /\ Len(walk) = 2
                        /\ walk[1].state = Round3(result.cumulative_data[j][view[1]])
                        /\ walk[2].state
                               = Round3(result.cumulative_data[j][view[1]] + delta)
                        /\ delta <= -Milli => walk[2].state < walk[1].state

\* a second reading of a day below the first: the daily import total is
\* zero, and the walk over the same difference ends below the baseline; and a
\* pair of readings whose difference is no whole number of thousandths: the
\* daily total is that difference rounded
C24_Witness ==
    /\ CumulativeDone
    /\ \E j \in DOMAIN new_outcome.value.daily_data :
           /\ BaselineDelta(new_outcome.value, j, "cumulative_import_kwh") < 0
           /\ new_outcome.value.daily_data[j].import_kwh = 0
           /\ WalkOver(new_outcome.value, j, "cumulative_import_kwh")[2].state
                  < new_outcome.value.cumulative_data[j].cumulative_import_kwh
    /\ \E j \in DOMAIN new_outcome.value.daily_data :
           LET delta == BaselineDelta(new_outcome.value, j, "cumulative_import_kwh")
           IN  /\ delta > 0
               /\ delta % Milli # 0
               /\ new_outcome.value.daily_data[j].import_kwh = Round3(delta)
               /\ new_outcome.value.daily_data[j].import_kwh # delta

\* the daily consumption between the baselines j and j + 1: the difference,
\* a negative one taken as zero, rounded to three decimals
Clamped(result, j, key) == Round3(Max({0, BaselineDelta(result, j, key)}))

\* the consumption of the days 1..j of a cumulative result, added up
RECURSIVE ClampedUpTo(_, _, _)
ClampedUpTo(result, j, key) ==
    IF j = 0 THEN 0 ELSE Clamped(result, j, key) + ClampedUpTo(result, j - 1, key)

\* the hourly record of hour h of the day of baseline j + 1
HourRecord(result, j, h) == result.hourly_data[HoursPerDay * (j - 1) + h + 1]

\* the baselines 1..j of a cumulative result never go down
NonDecreasingUpTo(result, j, key) ==
    \A k \in 1..(j - 1) :
        result.cumulative_data[k][key] <= result.cumulative_data[k + 1][key]

\* the baselines 1..j of a cumulative result are whole thousandths
WholeUpTo(result, j, key) ==
    \A k \in 1..j : result.cumulative_data[k][key] % Milli = 0

\* for every pair of consecutive baselines HoursPerDay hourly records, at
\* 00:00 to 23:00 of the later date, each with the running total after one
\* 24th of the day's clamped consumption was added, the total starting at
\* the first baseline; the totals never go down
EvenlyDistributed(result) ==
    /\ Len(result.hourly_data) = HoursPerDay * Len(result.daily_data)
    /\ \A j \in DOMAIN result.daily_data :
           \A h \in 0..(HoursPerDay - 1) :
               /\ HourRecord(result, j, h).datetime
                      = result.cumulative_data[j + 1].date * MinutesPerDay + 60 * h
               /\ \A key \in {"cumulative_import_kwh", "cumulative_export_kwh"} :
                      HourRecord(result, j, h)[key]
                          = Round3(result.cumulative_data[1][key]
                                   + ClampedUpTo(result, j - 1, key)
                                   + (h + 1) * (Clamped(result, j, key) \div HoursPerDay))
    /\ \A i \in 1..(Len(result.hourly_data) - 1) :
           /\ result.hourly_data[i].cumulative_import_kwh
                  <= result.hourly_data[i + 1].cumulative_import_kwh
           /\ result.hourly_data[i].cumulative_export_kwh
                  <= result.hourly_data[i + 1].cumulative_export_kwh

\* C29 as stated: the hourly records are an even distribution, and after
\* hour 23 of a date the running total is that date's own reading whenever
\* the readings up to it do not go down.
C29_TotalReachesReading ==
    CumulativeDone =>
        LET result == new_outcome.value
        IN  /\ EvenlyDistributed(result)
            /\ \A j \in DOMAIN result.daily_data :
                   \A key \in {"cumulative_import_kwh", "cumulative_export_kwh"} :
                       NonDecreasingUpTo(result, j + 1, key) =>
                           HourRecord(result, j, HoursPerDay - 1)[key]
                               = Round3(result.cumulative_data[j + 1][key])

\* C29 amended: the hourly records are an even distribution of the clamped
\* and rounded daily consumption; after hour 23 of a date the running total
\* is the first reading plus the consumption of the days so far, and it is
\* that date's own reading whenever the readings up to it do not go down
\* and are whole thousandths.
C29_EvenDistribution ==
    CumulativeDone =>
        LET result == new_outcome.value
        IN  /\ EvenlyDistributed(result)
            /\ \A j \in DOMAIN result.daily_data :
                   \A key \in {"cumulative_import_kwh", "cumulative_export_kwh"} :
                       /\ HourRecord(result, j, HoursPerDay - 1)[key]
                              = Round3(result.cumulative_data[1][key]
                                       + ClampedUpTo(result, j, key))
                       /\ (NonDecreasingUpTo(result, j + 1, key)
                           /\ WholeUpTo(result, j + 1, key)) =>
                              HourRecord(result, j, HoursPerDay - 1)[key]
                                  = result.cumulative_data[j + 1][key]

\* three rising whole readings: two days of hourly records, the last of
\* each day at the day's reading, above the first reading
C29_Witness ==
    /\ CumulativeDone
    /\ LET result == new_outcome.value
       IN  /\ Len(result.cumulative_data) = 3
           /\ Len(result.hourly_data) = 2 * HoursPerDay
           /\ NonDecreasingUpTo(result, 3, "cumulative_import_kwh")
           /\ WholeUpTo(result, 3, "cumulative_import_kwh")
           /\ result.cumulative_data[1].cumulative_import_kwh
                  < result.cumulative_data[2].cumulative_import_kwh
           /\ result.cumulative_data[2].cumulative_import_kwh
                  < result.cumulative_data[3].cumulative_import_kwh
           /\ HourRecord(result, 1, HoursPerDay - 1).cumulative_import_kwh
                  = result.cumulative_data[2].cumulative_import_kwh
           /\ HourRecord(result, 2, HoursPerDay - 1).cumulative_import_kwh
                  = result.cumulative_data[3].cumulative_import_kwh

\* 0.01 kWh
MidnightTolerance == 10 * Milli

\* |x - y|
Distance(x, y) == IF x >= y THEN x - y ELSE y - x

\* C17: the hourly cumulative import at 00:00 of a day with a reading is that
\* day's reading, within 0.01 kWh.  The parser adds a 24th of the day's
\* consumption before it writes the record of an hour, starting from the
\* reading of the day before: the value at 00:00 is the previous reading plus
\* that 24th, and the day's own reading is only reached at 23:00.
C17_MidnightEqualsBaseline ==
    CumulativeDone =>
        \A i \in DOMAIN new_outcome.value.cumulative_data,
           h \in DOMAIN new_outcome.value.hourly_data :
            new_outcome.value.hourly_data[h].datetime
                = new_outcome.value.cumulative_data[i].datetime
            => Distance(new_outcome.value.hourly_data[h].cumulative_import_kwh,
                        new_outcome.value.cumulative_data[i].cumulative_import_kwh)
                   < MidnightTolerance

---------------------------------------------------------------------------
(* Claims about validate_processed_data                                    *)

Validated == pd_pc = "validated"

\* two entries of a direction's series start at the same time
SameStartTwice(dir) ==
    \E i, j \in DOMAIN processed_data[dir] :
        i < j /\ processed_data[dir][i].start = processed_data[dir][j].start

\* C18: validate_processed_data raises DataValidationError exactly when the
\* series of some direction holds two entries with the same start; otherwise
\* it returns, whatever the sums are and also when a series is empty; and the
\* processed data is afterwards what process_data returned.
C18_RaisesExactlyOnDuplicateStart ==
    Validated =>
        /\ validation.raised <=> (\E dir \in Directions : SameStartTwice(dir))
        /\ validation.raised => validation.error = "DataValidationError"
        /\ processed_data = process_data(parsed_data)

\* the import series is empty and the export series holds one start twice:
\* the validator passed over the first and raised for the second
C18_Witness ==
    /\ Validated
    /\ processed_data.import = <<>>
    /\ SameStartTwice("export")
    /\ validation.raised

\* a series with a negative sum and no start twice: the validator returned
C18_Witness_NegativeSum ==
    /\ Validated
    /\ ~validation.raised
    /\ \E dir \in Directions : \E i \in DOMAIN processed_data[dir] :
           processed_data[dir][i].sum < 0

---------------------------------------------------------------------------
(* Claims about concurrent calls                                           *)

\* C19: two parse_file calls on different files, interleaved in any order,
\* each end as the call ends when it runs alone: with the same result or the
\* same error.
C19_ConcurrentCallsDoNotInterfere ==
    \A t \in Calls :
        cc_calls[t].pc = "done" =>
            cc_calls[t].outcome = parse_file(cc_calls[t].file_path,
                                             cc_calls[t].format_override)

\* both calls ran the cumulative parser to its end, the second call got its
\* instance before the first, and each instance holds the readings of its own
\* call's file
C19_Witness ==
    /\ \A t \in Calls : cc_calls[t].pc = "done" /\ ~cc_calls[t].outcome.raised
    /\ \A t \in Calls : cc_heap[cc_calls[t].parser].class = "CumulativeParser"
    /\ cc_calls[1].parser # cc_calls[2].parser
    /\ cc_calls[1].parser > cc_calls[2].parser
    /\ cc_calls[1].outcome.result.hourly_data # <<>>
    /\ cc_heap[cc_calls[1].parser].cumulative_data
           # cc_heap[cc_calls[2].parser].cumulative_data

---------------------------------------------------------------------------
(* Claims about the folder watcher                                         *)

\* the handler's call of process_file is between its add and its discard:
\* about to log the start, in the run, in the notification that follows a
\* successful run, or about to enter the finally clause
Holding(h) == fw_handlers[h].pc \in {"added", "running", "notifying", "leaving"}

\* a call of process_file for the path is between its add and its discard
Running(path) ==
    \E h \in Handlers : Holding(h) /\ fw_handlers[h].file_path = path

\* a path is in the set only while a call for it runs, and the set is empty
\* when every event has been handled
TracksRunningCalls ==
    /\ \A path \in fw_processing : Running(path)
    /\ (\A h \in Handlers : fw_handlers[h].pc = "idle") => fw_processing = {}

\* a call that finds its path in the set goes to its return and from there
\* back to idle: it adds nothing to the set, takes nothing out of it and
\* starts no run; a call that does not find its path goes on to the add and
\* from there to the run
TestDecides ==
    \A h \in Handlers :
        /\ (fw_handlers[h].pc = "called" /\ fw_handlers'[h].pc # "called") =>
               /\ fw_handlers'[h].pc =
                      IF fw_handlers[h].file_path \in fw_processing
                      THEN "refused" ELSE "entered"
               /\ fw_processing' = fw_processing
        /\ (fw_handlers[h].pc = "refused" /\ fw_handlers'[h].pc # "refused") =>
               /\ fw_handlers'[h].pc = "idle"
               /\ fw_processing' = fw_processing
               /\ fw_log' = Append(fw_log, LogEntry("is already being processed",
                                                    fw_handlers[h].file_path))
        /\ (fw_handlers[h].pc = "entered" /\ fw_handlers'[h].pc # "entered") =>
               /\ fw_handlers'[h].pc = "added"
               /\ fw_handlers[h].file_path \in fw_processing'
        /\ (fw_handlers[h].pc = "added" /\ fw_handlers'[h].pc # "added") =>
               fw_handlers'[h].pc = "running"

\* a call that started a run leaves only through the finally clause, which
\* takes the path out of the set whatever the outcome was; no other step of
\* any call takes a path out
EndRemoves ==
    /\ \A h \in Handlers :
           (Holding(h) /\ ~Holding(h)') =>
               /\ fw_handlers[h].pc = "leaving"
               /\ fw_handlers[h].outcome \in RunOutcomes
               /\ fw_handlers[h].file_path \notin fw_processing'
               /\ fw_handlers'[h].pc = "idle"
    /\ fw_processing \subseteq fw_processing'
           \/ \E h \in Handlers :
                  /\ fw_handlers[h].pc = "leaving"
                  /\ fw_handlers'[h].pc = "idle"
                  /\ fw_processing' = fw_processing \ {fw_handlers[h].file_path}

\* C30: a path is in EONFileHandler.processing only while a process_file
\* call for it is running; the call's end removes it whatever the outcome, so
\* that the set is empty once all events are handled and a later event for
\* the path starts a run again; a call for a path that is in the set returns
\* without a second run.
C30_ProcessingTracksRunningCalls ==
    /\ []TracksRunningCalls
    /\ [][TestDecides]_vars
    /\ [][EndRemoves]_vars

\* a run of a path was started, a second call for the path was turned away
\* before the run's failure was logged, hence before the discard, and after
\* the failure a later event for the same path started a run again, which
\* succeeded; every call has returned and nothing is left in the set
C30_Witness ==
    /\ fw_processing = {}
    /\ \A h \in Handlers : fw_handlers[h].pc = "idle"
    /\ \E path \in WatchedPaths :
           \E i, j, k, l, m \in DOMAIN fw_log :
               /\ i < j /\ j < k /\ k < l /\ l < m
               /\ fw_log[i] = LogEntry("Processing file", path)
               /\ fw_log[j] = LogEntry("is already being processed", path)
               /\ fw_log[k] = LogEntry("Error processing", path)
               /\ fw_log[l] = LogEntry("Processing file", path)
               /\ fw_log[m] = LogEntry("Successfully processed", path)

====
